---- MODULE Spec2Model ----
(***************************************************************************)
(* A model of rlox, a tree-walking interpreter: lexer (src/lexer), parser  *)
(* (src/parser), environments (src/environment.rs), evaluator              *)
(* (src/interpreter) and the session object Runner (src/runner.rs).        *)
(*                                                                         *)
(* Characters are one-character TLA+ strings; a Rust String is the         *)
(* sequence of its characters.  The character '\0' is written NUL.         *)
(***************************************************************************)
EXTENDS Integers, Sequences, FiniteSets, TLC

VARIABLES
    input,        \* lexer: the &str handed to tokenize
    cursor,       \* lexer: the Cursor captured by the token iterator
    tokens,       \* lexer: the tokens the iterator has yielded so far
    ended,        \* lexer: "yes" once the iterator has returned None
    source,       \* parser: the text whose tokens are parsed
    stream,       \* parser: Parser.tokens, the tokens not yet consumed
    pstatements,  \* parser: the vector `statements` of Parser::parse
    perrors,      \* parser: the messages written to stderr
    pstate,       \* parser: "parsing", "done" (parse returned) or "panic"
    interpreter,  \* Runner.interpreter: the environments and the two pointers
    code,         \* Runner::run: the text of the last call
    rstmts,       \* Runner::run: the statements parsed in the last call
    rresult,      \* Runner::run: what the last call returned
    out,          \* the values printed to stdout by the last call
    stderr,       \* the "Interpreter Error" message of the last call
    log,          \* the history of the evaluator during the last call
    runs          \* the number of Runner::run calls so far

lexvars == <<input, cursor, tokens, ended>>

parsevars == <<source, stream, pstatements, perrors, pstate>>

runvars == <<interpreter, code, rstmts, rresult, out, stderr, log, runs>>

vars == <<lexvars, parsevars, runvars>>

(***************************************************************************)
(* Bounds of the model.                                                    *)
(***************************************************************************)
MaxInputLen == 3

MaxFrags == 2

MaxRuns == 2

(***************************************************************************)
(* Characters (src/lexer/cursor.rs, char classes of std).                  *)
(***************************************************************************)
NUL == "\\0"

EOF_CHAR == NUL

Digits == {"0", "1", "2", "3", "4", "5", "6", "7", "8", "9"}

Letters ==
    {"a", "b", "c", "d", "e", "f", "g", "h", "i", "j", "k", "l", "m",
     "n", "o", "p", "q", "r", "s", "t", "u", "v", "w", "x", "y", "z",
     "A", "B", "C", "D", "E", "F", "G", "H", "I", "J", "K", "L", "M",
     "N", "O", "P", "Q", "R", "S", "T", "U", "V", "W", "X", "Y", "Z"}

is_whitespace(c) == c \in {" ", "\n", "\t", "\r"}

is_digit(c) == c \in Digits

is_alphabetic(c) == c \in Letters

is_alphanumeric(c) == is_alphabetic(c) \/ is_digit(c)

\* The characters of a string literal of this module, as a sequence.
Chars(s) == [i \in 1..Len(s) |-> SubSeq(s, i, i)]

\* `let x = v;` followed by In, which reads x: v is evaluated once.
Let(v, In(_)) == In(v)

(***************************************************************************)
(* Cursor: initial_len and the remaining characters.                       *)
(***************************************************************************)
CursorNew(in) == [initial_len |-> Len(in), chars |-> in]

first(cur) == IF Len(cur.chars) >= 1 THEN cur.chars[1] ELSE EOF_CHAR

second(cur) == IF Len(cur.chars) >= 2 THEN cur.chars[2] ELSE EOF_CHAR

is_eof(cur) == cur.chars = <<>>

len_consumed(cur) == cur.initial_len - Len(cur.chars)

reset_len_consumed(cur) == [cur EXCEPT !.initial_len = Len(cur.chars)]

\* bump: Option<char> is a sequence of zero or one character.
bump(cur) ==
    IF cur.chars = <<>>
    THEN [cur |-> cur, c |-> <<>>]
    ELSE [cur |-> [cur EXCEPT !.chars = Tail(cur.chars)], c |-> <<cur.chars[1]>>]

RECURSIVE eat_while_not_newline(_)
eat_while_not_newline(cur) ==
    IF first(cur) # "\n" /\ ~is_eof(cur)
    THEN eat_while_not_newline(bump(cur).cur)
    ELSE cur

(***************************************************************************)
(* Numbers.  An f64 is modelled as an exact decimal m * 10^(-e), kept      *)
(* normalised (no trailing zero in the fraction); nf marks the non-finite  *)
(* results of a division by zero.                                          *)
(***************************************************************************)
RECURSIVE NormDec(_, _)
NormDec(m, e) ==
    IF e > 0 /\ m % 10 = 0 THEN NormDec(m \div 10, e - 1) ELSE [m |-> m, e |-> e, nf |-> ""]

DigitVal(c) == CHOOSE d \in 0..9 : Chars("0123456789")[d + 1] = c

RECURSIVE DigitsVal(_, _)
DigitsVal(ds, acc) ==
    IF ds = <<>> THEN acc ELSE DigitsVal(Tail(ds), acc * 10 + DigitVal(ds[1]))

\* val.parse::<f64>() of digits with an optional ".digits" part.
ParseF64(val) ==
    LET dot == {i \in 1..Len(val) : val[i] = "."} IN
    IF dot = {}
    THEN NormDec(DigitsVal(val, 0), 0)
    ELSE LET d == CHOOSE i \in dot : TRUE
             ds == SubSeq(val, 1, d - 1) \o SubSeq(val, d + 1, Len(val))
         IN  NormDec(DigitsVal(ds, 0), Len(val) - d)

Zero == [m |-> 0, e |-> 0, nf |-> ""]

(***************************************************************************)
(* Tokens (src/lexer/mod.rs).  TokenKind carries the payload of            *)
(* Identifier/String in s and of Number in num.                            *)
(***************************************************************************)
Kind(k) == [kind |-> k, s |-> <<>>, num |-> Zero]

KindS(k, s) == [kind |-> k, s |-> s, num |-> Zero]

KindN(k, n) == [kind |-> k, s |-> <<>>, num |-> n]

Token(value, length, lexeme) == [value |-> value, length |-> length, lexeme |-> lexeme]

\* Result of a lexer step: (TokenKind, lexeme), the cursor after it, and
\* whether an unwrap() of None was hit.
LexRes(cur, kind, lexeme, panic) ==
    [cur |-> cur, kind |-> kind, lexeme |-> lexeme, panic |-> panic]

\* The operator arms without the look at self.first().
TwoChar_one(cur, c, two, one) == LexRes(cur, Kind(one), <<c>>, FALSE)

\* The two-character operator arms: if self.first() == '=' { bump().unwrap() }.
TwoChar(cur, c, two, one) ==
    IF first(cur) = "="
    THEN LET b == bump(cur) IN
         IF b.c = <<>>
         THEN LexRes(b.cur, Kind(two), <<c>>, TRUE)
         ELSE LexRes(b.cur, Kind(two), <<c>> \o b.c, FALSE)
    ELSE LexRes(cur, Kind(one), <<c>>, FALSE)

RECURSIVE string_loop(_, _)
string_loop(cur, val) ==
    LET b == bump(cur) IN
    IF b.c = <<>>
    THEN LexRes(b.cur, Kind("Eof"), <<>>, FALSE)
    ELSE IF b.c[1] = "\""
         THEN LexRes(b.cur, KindS("String", val), <<"\"">> \o val \o <<"\"">>, FALSE)
         ELSE string_loop(b.cur, val \o b.c)

string(cur) == string_loop(cur, <<>>)

\* while self.first().is_digit(10) { val.push(self.bump().unwrap()) }
RECURSIVE eat_digits(_, _)
eat_digits(cur, val) ==
    IF is_digit(first(cur))
    THEN LET b == bump(cur) IN
         IF b.c = <<>>
         THEN [cur |-> b.cur, val |-> val, panic |-> TRUE]
         ELSE eat_digits(b.cur, val \o b.c)
    ELSE [cur |-> cur, val |-> val, panic |-> FALSE]

number(cur, first_digit) ==
    LET d1 == eat_digits(cur, <<first_digit>>) IN
    IF d1.panic THEN LexRes(d1.cur, Kind("Number"), d1.val, TRUE)
    ELSE IF first(d1.cur) = "." /\ is_digit(second(d1.cur))
         THEN LET b  == bump(d1.cur)
                  d2 == eat_digits(b.cur, d1.val \o b.c)
              IN  IF d2.panic THEN LexRes(d2.cur, Kind("Number"), d2.val, TRUE)
                  ELSE LexRes(d2.cur, KindN("Number", ParseF64(d2.val)), d2.val, FALSE)
         ELSE LexRes(d1.cur, KindN("Number", ParseF64(d1.val)), d1.val, FALSE)

RECURSIVE eat_ident(_, _)
eat_ident(cur, val) ==
    IF is_alphanumeric(first(cur)) \/ first(cur) = "_"
    THEN LET b == bump(cur) IN
         IF b.c = <<>>
         THEN [cur |-> b.cur, val |-> val, panic |-> TRUE]
         ELSE eat_ident(b.cur, val \o b.c)
    ELSE [cur |-> cur, val |-> val, panic |-> FALSE]

Keywords ==
    << <<Chars("and"), "And">>, <<Chars("class"), "Class">>, <<Chars("else"), "Else">>,
       <<Chars("false"), "False">>, <<Chars("for"), "For">>, <<Chars("fun"), "Fun">>,
       <<Chars("if"), "If">>, <<Chars("nil"), "Nil">>, <<Chars("or"), "Or">>,
       <<Chars("print"), "Print">>, <<Chars("return"), "Return">>,
       <<Chars("super"), "Super">>, <<Chars("this"), "This">>, <<Chars("true"), "True">>,
       <<Chars("var"), "Var">>, <<Chars("while"), "While">> >>

identifier(cur, starting_char) ==
    LET r  == eat_ident(cur, <<starting_char>>)
        kw == {i \in 1..Len(Keywords) : Keywords[i][1] = r.val}
    IN  IF kw # {}
        THEN LexRes(r.cur, Kind(Keywords[CHOOSE i \in kw : TRUE][2]), r.val, r.panic)
        ELSE LexRes(r.cur, KindS("Identifier", r.val), r.val, r.panic)

SingleChar ==
    [c \in {"(", ")", "{", "}", ",", ".", "-", "+", ";", "*"} |->
        CASE c = "(" -> "LeftParen"  [] c = ")" -> "RightParen"
          [] c = "{" -> "LeftBrace"  [] c = "}" -> "RightBrace"
          [] c = "," -> "Comma"      [] c = "." -> "Dot"
          [] c = "-" -> "Minus"      [] c = "+" -> "Plus"
          [] c = ";" -> "Semicolon"  [] c = "*" -> "Star"]

\* Cursor::advance_token: the (TokenKind, lexeme) of the next token.
RECURSIVE advance_token_kind(_)
advance_token_kind(cur0) ==
    LET b   == bump(cur0)
        c   == IF b.c = <<>> THEN EOF_CHAR ELSE b.c[1]
        cur == b.cur
    IN  CASE c \in DOMAIN SingleChar -> LexRes(cur, Kind(SingleChar[c]), <<c>>, FALSE)
          [] c = "!" -> TwoChar(cur, c, "Ne", "Bang")
          [] c = "=" -> TwoChar(cur, c, "EqEq", "Eq")
          [] c = ">" -> TwoChar(cur, c, "Ge", "Gt")
          [] c = "<" -> TwoChar(cur, c, "Le", "Lt")
          [] c = "/" ->
                IF first(cur) = "/"
                THEN advance_token_kind(eat_while_not_newline(cur))
                ELSE LexRes(cur, Kind("Slash"), <<c>>, FALSE)
          [] is_whitespace(c) -> advance_token_kind(cur)
          [] c = "\"" -> string(cur)
          [] is_digit(c) -> number(cur, c)
          [] is_alphabetic(c) \/ c = "_" -> identifier(cur, c)
          [] c = EOF_CHAR -> LexRes(cur, Kind("Eof"), <<c>>, FALSE)
          [] OTHER -> LexRes(cur, Kind("Unknown"), <<c>>, FALSE)

\* Cursor::advance_token: the Token, the cursor after it, the panic flag.
advance_token(cur) ==
    Let(advance_token_kind(cur), LAMBDA r:
        [cur |-> r.cur, token |-> Token(r.kind, len_consumed(r.cur), r.lexeme),
         panic |-> r.panic])

\* The closure of tokenize without the is_eof test.
tokenize_next_no_eof(cur) ==
    Let(advance_token(reset_len_consumed(cur)), LAMBDA r:
        [cur |-> r.cur, item |-> <<r.token>>, panic |-> r.panic])

\* One call of the closure in tokenize: <<>> is None, <<t>> is Some(t).
tokenize_next(cur) ==
    IF is_eof(cur)
    THEN [cur |-> cur, item |-> <<>>, panic |-> FALSE]
    ELSE Let(advance_token(reset_len_consumed(cur)), LAMBDA r:
             [cur |-> r.cur, item |-> <<r.token>>, panic |-> r.panic])

\* The first n calls of the closure from cur, collected: the items of the
\* first half of the calls, then those of the calls from where these stopped.
\* `end` says that the iterator has returned None or has panicked.
RECURSIVE tokenize_from(_, _)
tokenize_from(cur, n) ==
    IF n = 1
    THEN Let(tokenize_next(cur), LAMBDA r:
             [tokens |-> r.item, panic |-> r.panic, cur |-> r.cur,
              end |-> r.item = <<>> \/ r.panic])
    ELSE Let(tokenize_from(cur, n \div 2), LAMBDA a:
             IF a.end THEN a
             ELSE Let(tokenize_from(a.cur, n - n \div 2), LAMBDA b:
                      [b EXCEPT !.tokens = a.tokens \o b.tokens]))

\* tokenize(input) collected: every token the iterator yields.  The closure
\* consumes a character in every call but the last.
tokenize(in) ==
    Let(tokenize_from(CursorNew(in), Len(in) + 1), LAMBDA r:
        [tokens |-> r.tokens, panic |-> r.panic])

(***************************************************************************)
(* AST (src/ast/expr.rs, src/ast/stmt.rs).  Option<T> is a sequence of     *)
(* zero or one T; Box<T> is T.                                             *)
(***************************************************************************)
Value(t, b, num, s, fn) == [t |-> t, b |-> b, num |-> num, s |-> s, fn |-> fn]

LitNil == Value("Nil", FALSE, Zero, <<>>, <<>>)

LitBool(b) == Value("Bool", b, Zero, <<>>, <<>>)

LitNumber(n) == Value("Number", FALSE, n, <<>>, <<>>)

LitString(s) == Value("String", FALSE, Zero, s, <<>>)

LitCallable(c) == Value("Callable", FALSE, Zero, <<>>, <<c>>)

ExprLiteral(l) == [kind |-> "Literal", lit |-> l]

ExprGrouping(e) == [kind |-> "Grouping", expr |-> e]

ExprUnary(op, e) == [kind |-> "Unary", op |-> op, expr |-> e]

ExprBinary(op, l, r) == [kind |-> "Binary", op |-> op, lhs |-> l, rhs |-> r]

ExprLogical(op, l, r) == [kind |-> "Logical", op |-> op, lhs |-> l, rhs |-> r]

ExprVariable(name) == [kind |-> "Variable", name |-> name]

ExprAssign(name, e) == [kind |-> "Assign", name |-> name, expr |-> e]

ExprCall(callee, arguments) == [kind |-> "Call", callee |-> callee, arguments |-> arguments]

StmtExpression(e) == [kind |-> "Expression", expr |-> e]

StmtPrint(e) == [kind |-> "Print", expr |-> e]

StmtVar(name, initializer) == [kind |-> "Var", name |-> name, initializer |-> initializer]

StmtBlock(stmts) == [kind |-> "Block", stmts |-> stmts]

StmtIf(c, t, e) == [kind |-> "If", condition |-> c, then_stmt |-> t, else_stmt |-> e]

StmtWhile(c, body) == [kind |-> "While", condition |-> c, body |-> body]

StmtFunction(name, params, body) ==
    [kind |-> "Function", name |-> name, params |-> params, body |-> body]

StmtReturn(keyword, value) == [kind |-> "Return", keyword |-> keyword, value |-> value]

\* impl TryFrom<TokenKind> for BinOp: <<op>> is Ok(op), <<>> is Err.
BinOpTryFrom(value) ==
    CASE value.kind = "Le"    -> <<"Le">>
      [] value.kind = "Lt"    -> <<"Lt">>
      [] value.kind = "Ge"    -> <<"Ge">>
      [] value.kind = "Gt"    -> <<"Gt">>
      [] value.kind = "Eq"    -> <<"Eq">>
      [] value.kind = "EqEq"  -> <<"EqEq">>
      [] value.kind = "Plus"  -> <<"Plus">>
      [] value.kind = "Minus" -> <<"Minus">>
      [] value.kind = "Star"  -> <<"Multiply">>
      [] value.kind = "Slash" -> <<"Divide">>
      [] OTHER -> <<>>

\* impl TryFrom<TokenKind> for UnOp
UnOpTryFrom(value) ==
    CASE value.kind = "Bang"  -> <<"LogNeg">>
      [] value.kind = "Minus" -> <<"BinNeg">>
      [] OTHER -> <<>>

\* impl TryFrom<TokenKind> for LogOp
LogOpTryFrom(value) ==
    CASE value.kind = "And" -> <<"And">>
      [] value.kind = "Or"  -> <<"Or">>
      [] OTHER -> <<>>

(***************************************************************************)
(* Parser (src/parser/parser.rs).  The Peekable token stream is the        *)
(* sequence of the tokens not yet consumed.  A parsing method returns      *)
(* st = "ok" with its value v, st = "err" with the message of the          *)
(* ParsingError, or st = "panic" when an unwrap() failed; toks is the      *)
(* stream it leaves behind.                                                *)
(***************************************************************************)
MaxArity == 255

POk(v, toks) == [st |-> "ok", v |-> <<v>>, toks |-> toks, msg |-> ""]

PErr(msg, toks) == [st |-> "err", v |-> <<>>, toks |-> toks, msg |-> msg]

PPanic(toks) == [st |-> "panic", v |-> <<>>, toks |-> toks, msg |-> "unwrap"]

\* The end of an iteration of a `loop` that goes round again with v.
PLoop(v, toks) == [st |-> "loop", v |-> <<v>>, toks |-> toks, msg |-> ""]

\* The `?` operator: continue with K on Ok, hand the failure on otherwise.
Try(r, K(_, _)) == IF r.st # "ok" THEN r ELSE K(r.v[1], r.toks)

peek_kind(toks) == IF toks # <<>> THEN <<toks[1].value>> ELSE <<>>

PeekIs(toks, k) == toks # <<>> /\ toks[1].value.kind = k

PeekIn(toks, ks) == toks # <<>> /\ toks[1].value.kind \in ks

RECURSIVE advance(_)
advance(toks) ==
    IF toks = <<>> THEN [tok |-> <<>>, toks |-> toks]
    ELSE IF toks[1].value.kind = "Whitespace" THEN advance(Tail(toks))
         ELSE [tok |-> <<toks[1]>>, toks |-> Tail(toks)]

\* self.advance().unwrap(), then K on the token.
AdvanceUnwrap(toks, K(_, _)) ==
    LET a == advance(toks) IN
    IF a.tok = <<>> THEN PPanic(a.toks) ELSE K(a.tok[1], a.toks)

\* match self.peek_kind() { Some(k) => { self.advance().unwrap(); .. } _ => Err(msg) }
Expect(toks, k, msg, K(_, _)) ==
    IF PeekIs(toks, k) THEN AdvanceUnwrap(toks, K) ELSE PErr(msg, toks)

is_at_end(toks) == IF toks = <<>> THEN TRUE ELSE toks[1].value.kind = "Eof"

SyncKinds == {"Class", "Fun", "Var", "For", "If", "While", "Print", "Return"}

RECURSIVE sync(_)
sync(toks) ==
    LET a == advance(toks) IN
    IF a.tok = <<>> THEN a.toks
    ELSE IF a.tok[1].value.kind = "Semicolon" THEN a.toks
    ELSE IF a.toks = <<>> THEN a.toks
    ELSE IF a.toks[1].value.kind \in SyncKinds THEN a.toks
    ELSE sync(a.toks)

\* self.method(): a call of a parsing method on the current token stream.
RECURSIVE self(_, _)
RECURSIVE finish_call_args(_, _, _), call_loop(_, _), factor_loop(_, _), term_loop(_, _),
          comparison_loop(_, _), equality_loop(_, _), and_loop(_, _), or_loop(_, _),
          block_loop(_, _), function_params(_, _, _)

primary(toks) ==
    LET a == advance(toks) IN
    IF a.tok = <<>> THEN PErr("Unexpected EOF", a.toks)
    ELSE LET token == a.tok[1]
             k     == token.value.kind
         IN  CASE k = "False"  -> POk(ExprLiteral(LitBool(FALSE)), a.toks)
               [] k = "True"   -> POk(ExprLiteral(LitBool(TRUE)), a.toks)
               [] k = "Nil"    -> POk(ExprLiteral(LitNil), a.toks)
               [] k = "Number" -> POk(ExprLiteral(LitNumber(token.value.num)), a.toks)
               [] k = "String" -> POk(ExprLiteral(LitString(token.value.s)), a.toks)
               [] k = "LeftParen" ->
                    Try(self("expression", a.toks), LAMBDA expr, t1:
                        IF PeekIs(t1, "RightParen")
                        THEN AdvanceUnwrap(t1, LAMBDA rp, t2: POk(ExprGrouping(expr), t2))
                        ELSE PErr("Expected ')' after expression", t1))
               [] k = "Identifier" -> POk(ExprVariable(token), a.toks)
               [] OTHER -> PErr("Unexpected token", a.toks)

\* The body of the loop of finish_call with `>` where the code has `>=`.
finish_call_arg_one_more(arguments, toks) ==
    IF Len(arguments) > MaxArity
    THEN PErr("Can't have more than 255 arguments", toks)
    ELSE Try(self("expression", toks), LAMBDA arg, t1:
             IF PeekIs(t1, "Comma")
             THEN AdvanceUnwrap(t1, LAMBDA c, t2: PLoop(Append(arguments, arg), t2))
             ELSE POk(Append(arguments, arg), t1))

\* One iteration of the loop of finish_call: "ok" is `break`.
finish_call_arg(arguments, toks) ==
    IF Len(arguments) >= MaxArity
    THEN PErr("Can't have more than 255 arguments", toks)
    ELSE Try(self("expression", toks), LAMBDA arg, t1:
             IF PeekIs(t1, "Comma")
             THEN AdvanceUnwrap(t1, LAMBDA c, t2: PLoop(Append(arguments, arg), t2))
             ELSE POk(Append(arguments, arg), t1))

\* The loop of finish_call run for at most n iterations: the first one, then
\* half of the others, then the rest from where these stopped.  An iteration
\* that goes round again has pushed an argument and one that finds MaxArity
\* of them returns, so that MaxArity + 1 iterations are all the loop can make.
finish_call_args(arguments, toks, n) ==
    Let(finish_call_arg(arguments, toks), LAMBDA a:
        IF a.st # "loop" \/ n = 1 THEN a
        ELSE IF n = 2 THEN finish_call_args(a.v[1], a.toks, 1)
        ELSE Let(finish_call_args(a.v[1], a.toks, n \div 2), LAMBDA b:
                 IF b.st # "loop" THEN b
                 ELSE finish_call_args(b.v[1], b.toks, n - 1 - n \div 2)))

finish_call(callee, toks) ==
    LET args == IF PeekIs(toks, "RightParen") THEN POk(<<>>, toks)
                ELSE finish_call_args(<<>>, toks, MaxArity + 1)
    IN  Try(args, LAMBDA arguments, t1:
            Expect(t1, "RightParen", "Expect ')' after arguments.",
                   LAMBDA rp, t2: POk(ExprCall(callee, arguments), t2)))

call_loop(expr, toks) ==
    IF PeekIs(toks, "LeftParen")
    THEN AdvanceUnwrap(toks, LAMBDA lp, t1:
             Try(finish_call(expr, t1), LAMBDA e, t2: call_loop(e, t2)))
    ELSE POk(expr, toks)

call(toks) == Try(self("primary", toks), LAMBDA expr, t1: call_loop(expr, t1))

unary(toks) ==
    IF PeekIn(toks, {"Bang", "Minus"})
    THEN AdvanceUnwrap(toks, LAMBDA operator_token, t1:
             LET un_op == UnOpTryFrom(operator_token.value) IN
             IF un_op = <<>> THEN PPanic(t1)
             ELSE Try(self("unary", t1), LAMBDA right, t2: POk(ExprUnary(un_op[1], right), t2)))
    ELSE self("call", toks)

factor_loop(expr, toks) ==
    IF PeekIn(toks, {"Slash", "Star"})
    THEN AdvanceUnwrap(toks, LAMBDA operator_token, t1:
             LET bin_op == BinOpTryFrom(operator_token.value) IN
             IF bin_op = <<>> THEN PPanic(t1)
             ELSE Try(self("unary", t1), LAMBDA right, t2:
                      factor_loop(ExprBinary(bin_op[1], expr, right), t2)))
    ELSE POk(expr, toks)

factor(toks) == Try(self("unary", toks), LAMBDA expr, t1: factor_loop(expr, t1))

term_loop(expr, toks) ==
    IF PeekIn(toks, {"Minus", "Plus"})
    THEN AdvanceUnwrap(toks, LAMBDA operator_token, t1:
             LET bin_op == BinOpTryFrom(operator_token.value) IN
             IF bin_op = <<>> THEN PPanic(t1)
             ELSE Try(self("factor", t1), LAMBDA right, t2:
                      term_loop(ExprBinary(bin_op[1], expr, right), t2)))
    ELSE POk(expr, toks)

term(toks) == Try(self("factor", toks), LAMBDA expr, t1: term_loop(expr, t1))

comparison_loop(expr, toks) ==
    IF PeekIn(toks, {"Gt", "Ge", "Lt", "Le"})
    THEN AdvanceUnwrap(toks, LAMBDA operator_token, t1:
             LET bin_op == BinOpTryFrom(operator_token.value) IN
             IF bin_op = <<>> THEN PPanic(t1)
             ELSE Try(self("term", t1), LAMBDA right, t2:
                      comparison_loop(ExprBinary(bin_op[1], expr, right), t2)))
    ELSE POk(expr, toks)

comparison(toks) == Try(self("term", toks), LAMBDA expr, t1: comparison_loop(expr, t1))

equality_loop(expr, toks) ==
    IF PeekIn(toks, {"Ne", "EqEq"})
    THEN AdvanceUnwrap(toks, LAMBDA operator_token, t1:
             LET bin_op == BinOpTryFrom(operator_token.value) IN
             IF bin_op = <<>> THEN PPanic(t1)
             ELSE Try(self("comparison", t1), LAMBDA right, t2:
                      equality_loop(ExprBinary(bin_op[1], expr, right), t2)))
    ELSE POk(expr, toks)

equality(toks) == Try(self("comparison", toks), LAMBDA expr, t1: equality_loop(expr, t1))

and_loop(expr, toks) ==
    IF PeekIs(toks, "And")
    THEN AdvanceUnwrap(toks, LAMBDA operator_token, t1:
             LET operator == LogOpTryFrom(operator_token.value) IN
             IF operator = <<>> THEN PPanic(t1)
             ELSE Try(self("equality", t1), LAMBDA right, t2:
                      and_loop(ExprLogical(operator[1], expr, right), t2)))
    ELSE POk(expr, toks)

and(toks) == Try(self("equality", toks), LAMBDA expr, t1: and_loop(expr, t1))

or_loop(expr, toks) ==
    IF PeekIs(toks, "Or")
    THEN AdvanceUnwrap(toks, LAMBDA operator_token, t1:
             LET operator == LogOpTryFrom(operator_token.value) IN
             IF operator = <<>> THEN PPanic(t1)
             ELSE Try(self("and", t1), LAMBDA right, t2:
                      or_loop(ExprLogical(operator[1], expr, right), t2)))
    ELSE POk(expr, toks)

or(toks) == Try(self("and", toks), LAMBDA expr, t1: or_loop(expr, t1))

assignment(toks) ==
    Try(self("or", toks), LAMBDA expr, t1:
        IF PeekIs(t1, "Eq")
        THEN AdvanceUnwrap(t1, LAMBDA eq, t2:
                 Try(self("assignment", t2), LAMBDA value, t3:
                     IF expr.kind = "Variable"
                     THEN POk(ExprAssign(expr.name, value), t3)
                     ELSE PErr("Invalid assignment target", t3)))
        ELSE POk(expr, t1))

expression(toks) == self("assignment", toks)

block_loop(stmts, toks) ==
    IF ~is_at_end(toks) /\ ~PeekIs(toks, "RightBrace")
    THEN Let(self("declaration", toks), LAMBDA d:
             IF d.st = "panic" THEN d
             ELSE block_loop(stmts \o d.v, d.toks))
    ELSE IF PeekIs(toks, "RightBrace")
         THEN AdvanceUnwrap(toks, LAMBDA rb, t1: POk(stmts, t1))
         ELSE PErr("Expect '}' after block.", toks)

block(toks) == block_loop(<<>>, toks)

expression_statement(toks) ==
    Try(self("expression", toks), LAMBDA expr, t1:
        Expect(t1, "Semicolon", "Expect ';' after value",
               LAMBDA sc, t2: POk(StmtExpression(expr), t2)))

return_statement(keyword, toks) ==
    LET value == IF PeekIs(toks, "Semicolon") THEN POk(<<>>, toks)
                 ELSE Try(self("expression", toks), LAMBDA e, t1: POk(<<e>>, t1))
    IN  Try(value, LAMBDA v, t1:
            Expect(t1, "Semicolon", "Expect ';' after return value",
                   LAMBDA sc, t2: POk(StmtReturn(keyword, v), t2)))

print_statement(toks) ==
    Try(self("expression", toks), LAMBDA value, t1:
        Expect(t1, "Semicolon", "Expect ';' after value",
               LAMBDA sc, t2: POk(StmtPrint(value), t2)))

\* for_statement running the increment before the body.
for_statement_incr_first(toks) ==
    Expect(toks, "LeftParen", "Expect '(' after 'if'", LAMBDA lp, t0:
    LET initializer ==
            CASE PeekIs(t0, "Semicolon") -> AdvanceUnwrap(t0, LAMBDA sc, t: POk(<<>>, t))
              [] PeekIs(t0, "Var") ->
                    AdvanceUnwrap(t0, LAMBDA v, t:
                        Try(self("var_declaration", t), LAMBDA s, tt: POk(<<s>>, tt)))
              [] OTHER -> Try(self("expression_statement", t0), LAMBDA s, tt: POk(<<s>>, tt))
    IN  Try(initializer, LAMBDA init, t1:
        LET condition == IF PeekIs(t1, "Semicolon") THEN POk(<<>>, t1)
                         ELSE Try(self("expression", t1), LAMBDA e, t: POk(<<e>>, t))
        IN  Try(condition, LAMBDA cond, t2:
            Expect(t2, "Semicolon", "Expect ';' after loop conditions.", LAMBDA sc, t3:
            LET increment == IF PeekIs(t3, "RightParen") THEN POk(<<>>, t3)
                             ELSE Try(self("expression", t3), LAMBDA e, t: POk(<<e>>, t))
            IN  Try(increment, LAMBDA incr, t4:
                Expect(t4, "RightParen", "Expect ')' after for clauses.", LAMBDA rp, t5:
                Try(self("statement", t5), LAMBDA body0, t6:
                    LET body1 == IF incr # <<>>
                                 THEN StmtBlock(<<StmtExpression(incr[1]), body0>>)
                                 ELSE body0
                        cond1 == IF cond = <<>> THEN ExprLiteral(LitBool(TRUE)) ELSE cond[1]
                        body2 == StmtWhile(cond1, body1)
                        body3 == IF init # <<>> THEN StmtBlock(<<init[1], body2>>) ELSE body2
                    IN  POk(body3, t6))))))))

for_statement(toks) ==
    Expect(toks, "LeftParen", "Expect '(' after 'if'", LAMBDA lp, t0:
    LET initializer ==
            CASE PeekIs(t0, "Semicolon") -> AdvanceUnwrap(t0, LAMBDA sc, t: POk(<<>>, t))
              [] PeekIs(t0, "Var") ->
                    AdvanceUnwrap(t0, LAMBDA v, t:
                        Try(self("var_declaration", t), LAMBDA s, tt: POk(<<s>>, tt)))
              [] OTHER -> Try(self("expression_statement", t0), LAMBDA s, tt: POk(<<s>>, tt))
    IN  Try(initializer, LAMBDA init, t1:
        LET condition == IF PeekIs(t1, "Semicolon") THEN POk(<<>>, t1)
                         ELSE Try(self("expression", t1), LAMBDA e, t: POk(<<e>>, t))
        IN  Try(condition, LAMBDA cond, t2:
            Expect(t2, "Semicolon", "Expect ';' after loop conditions.", LAMBDA sc, t3:
            LET increment == IF PeekIs(t3, "RightParen") THEN POk(<<>>, t3)
                             ELSE Try(self("expression", t3), LAMBDA e, t: POk(<<e>>, t))
            IN  Try(increment, LAMBDA incr, t4:
                Expect(t4, "RightParen", "Expect ')' after for clauses.", LAMBDA rp, t5:
                Try(self("statement", t5), LAMBDA body0, t6:
                    LET body1 == IF incr # <<>>
                                 THEN StmtBlock(<<body0, StmtExpression(incr[1])>>)
                                 ELSE body0
                        cond1 == IF cond = <<>> THEN ExprLiteral(LitBool(TRUE)) ELSE cond[1]
                        body2 == StmtWhile(cond1, body1)
                        body3 == IF init # <<>> THEN StmtBlock(<<init[1], body2>>) ELSE body2
                    IN  POk(body3, t6))))))))

while_statement(toks) ==
    Expect(toks, "LeftParen", "Expect '(' after 'if'", LAMBDA lp, t1:
    Try(self("expression", t1), LAMBDA condition, t2:
    Expect(t2, "RightParen", "Expect ')' after 'if'", LAMBDA rp, t3:
    Try(self("statement", t3), LAMBDA body, t4: POk(StmtWhile(condition, body), t4)))))

if_statement(toks) ==
    Expect(toks, "LeftParen", "Expect '(' after 'if'", LAMBDA lp, t1:
    Try(self("expression", t1), LAMBDA condition, t2:
    Expect(t2, "RightParen", "Expect ')' after 'if'", LAMBDA rp, t3:
    Try(self("statement", t3), LAMBDA then_branch, t4:
        LET else_branch ==
                IF PeekIs(t4, "Else")
                THEN AdvanceUnwrap(t4, LAMBDA el, t:
                         Try(self("statement", t), LAMBDA s, tt: POk(<<s>>, tt)))
                ELSE POk(<<>>, t4)
        IN  Try(else_branch, LAMBDA e, t5: POk(StmtIf(condition, then_branch, e), t5))))))

statement(toks) ==
    CASE PeekIs(toks, "Print")     -> AdvanceUnwrap(toks, LAMBDA k, t: self("print_statement", t))
      [] PeekIs(toks, "LeftBrace") ->
            AdvanceUnwrap(toks, LAMBDA k, t:
                Try(self("block", t), LAMBDA stmts, t1: POk(StmtBlock(stmts), t1)))
      [] PeekIs(toks, "If")        -> AdvanceUnwrap(toks, LAMBDA k, t: self("if_statement", t))
      [] PeekIs(toks, "While")     -> AdvanceUnwrap(toks, LAMBDA k, t: self("while_statement", t))
      [] PeekIs(toks, "For")       -> AdvanceUnwrap(toks, LAMBDA k, t: self("for_statement", t))
      [] PeekIs(toks, "Return")    -> AdvanceUnwrap(toks, LAMBDA k, t: return_statement(k, t))
      [] OTHER -> self("expression_statement", toks)

var_declaration(toks) ==
    IF PeekIs(toks, "Identifier")
    THEN AdvanceUnwrap(toks, LAMBDA name, t1:
             LET initializer ==
                     IF PeekIs(t1, "Eq")
                     THEN AdvanceUnwrap(t1, LAMBDA eq, t:
                              Try(self("expression", t), LAMBDA e, tt: POk(<<e>>, tt)))
                     ELSE POk(<<>>, t1)
             IN  Try(initializer, LAMBDA init, t2:
                     Expect(t2, "Semicolon", "Expect ';' after variable declaration.",
                            LAMBDA sc, t3: POk(StmtVar(name, init), t3))))
    ELSE PErr("Expect variable name.", toks)

\* One iteration of the loop of function: "ok" is `break`.
function_param(params, toks) ==
    IF Len(params) >= MaxArity
    THEN PErr("Can't have more than 255 parameters.", toks)
    ELSE IF PeekIs(toks, "Identifier")
         THEN AdvanceUnwrap(toks, LAMBDA p, t1:
                  IF PeekIs(t1, "Comma")
                  THEN AdvanceUnwrap(t1, LAMBDA c, t2: PLoop(Append(params, p), t2))
                  ELSE POk(Append(params, p), t1))
         ELSE PErr("Expect parameter name.", toks)

\* The loop of function run for at most n iterations, as finish_call_args.
function_params(params, toks, n) ==
    Let(function_param(params, toks), LAMBDA a:
        IF a.st # "loop" \/ n = 1 THEN a
        ELSE IF n = 2 THEN function_params(a.v[1], a.toks, 1)
        ELSE Let(function_params(a.v[1], a.toks, n \div 2), LAMBDA b:
                 IF b.st # "loop" THEN b
                 ELSE function_params(b.v[1], b.toks, n - 1 - n \div 2)))

function(kind, toks) ==
    IF ~PeekIs(toks, "Identifier") THEN PErr("Expect function name.", toks)
    ELSE AdvanceUnwrap(toks, LAMBDA name, t1:
    Expect(t1, "LeftParen", "Expect '(' after function name", LAMBDA lp, t2:
    LET ps == IF PeekIs(t2, "RightParen") THEN POk(<<>>, t2) ELSE function_params(<<>>, t2, MaxArity + 1)
    IN  Try(ps, LAMBDA params, t3:
        Expect(t3, "RightParen", "Expect ')' after parameters", LAMBDA rp, t4:
        IF PeekIs(t4, "LeftBrace")
        THEN AdvanceUnwrap(t4, LAMBDA lb, t5:
                 Try(self("block", t5), LAMBDA body, t6: POk(StmtFunction(name, params, body), t6)))
        ELSE PErr("Expect '{' before function body", t4)))))

\* Parser::declaration: v is Option<Stmt>; a ParsingError is reported
\* (msg) and followed by sync(); st is "panic" when an unwrap() failed.
declaration(toks) ==
    Let(CASE PeekIs(toks, "Var") ->
                AdvanceUnwrap(toks, LAMBDA k, t: self("var_declaration", t))
          [] PeekIs(toks, "Fun") ->
                AdvanceUnwrap(toks, LAMBDA k, t: function("function", t))
          [] OTHER -> self("statement", toks),
        LAMBDA result:
            CASE result.st = "ok"  -> result
              [] result.st = "err" -> [st |-> "err", v |-> <<>>, toks |-> sync(result.toks),
                                       msg |-> result.msg]
              [] OTHER -> result)

\* The methods of impl Parser that take only the token stream, by name.
self(method, toks) ==
    CASE method = "primary" -> primary(toks)
      [] method = "call" -> call(toks)
      [] method = "unary" -> unary(toks)
      [] method = "factor" -> factor(toks)
      [] method = "term" -> term(toks)
      [] method = "comparison" -> comparison(toks)
      [] method = "equality" -> equality(toks)
      [] method = "and" -> and(toks)
      [] method = "or" -> or(toks)
      [] method = "assignment" -> assignment(toks)
      [] method = "expression" -> expression(toks)
      [] method = "block" -> block(toks)
      [] method = "expression_statement" -> expression_statement(toks)
      [] method = "print_statement" -> print_statement(toks)
      [] method = "for_statement" -> for_statement(toks)
      [] method = "while_statement" -> while_statement(toks)
      [] method = "if_statement" -> if_statement(toks)
      [] method = "statement" -> statement(toks)
      [] method = "var_declaration" -> var_declaration(toks)
      [] method = "declaration" -> declaration(toks)

\* Parser::parse: the statements, the messages of the "Parser Error: .."
\* lines written to stderr, and whether the parser panicked.
RECURSIVE parse_loop(_, _, _)
parse_loop(statements, errors, toks) ==
    IF is_at_end(toks) THEN [statements |-> statements, errors |-> errors, panic |-> FALSE]
    ELSE Let(declaration(toks), LAMBDA d:
             IF d.st = "panic"
             THEN [statements |-> statements, errors |-> errors, panic |-> TRUE]
             ELSE parse_loop(statements \o d.v,
                             IF d.st = "err" THEN Append(errors, d.msg) ELSE errors, d.toks))

parse(toks) == parse_loop(<<>>, <<>>, toks)

(***************************************************************************)
(* Arithmetic of the modelled f64 values.                                  *)
(***************************************************************************)
DivDigits == 3

RECURSIVE Pow10(_)
Pow10(k) == IF k = 0 THEN 1 ELSE 10 * Pow10(k - 1)

Max(a, b) == IF a >= b THEN a ELSE b

\* Both mantissas at the larger exponent.
AlignL(a, b) == a.m * Pow10(Max(a.e, b.e) - a.e)

AlignR(a, b) == b.m * Pow10(Max(a.e, b.e) - b.e)

NonFinite(nf) == [m |-> 0, e |-> 0, nf |-> nf]

Sign(a) == CASE a.nf = "inf" -> 1 [] a.nf = "-inf" -> -1 [] a.nf = "nan" -> 0
             [] a.m > 0 -> 1 [] a.m < 0 -> -1 [] OTHER -> 0

InfOf(sgn) == IF sgn > 0 THEN NonFinite("inf") ELSE IF sgn < 0 THEN NonFinite("-inf")
              ELSE NonFinite("nan")

NumNeg(a) ==
    CASE a.nf = "inf" -> NonFinite("-inf") [] a.nf = "-inf" -> NonFinite("inf")
      [] a.nf = "nan" -> a [] OTHER -> [a EXCEPT !.m = 0 - a.m]

NumAdd(a, b) ==
    CASE a.nf = "nan" \/ b.nf = "nan" -> NonFinite("nan")
      [] a.nf # "" /\ b.nf # "" -> IF a.nf = b.nf THEN a ELSE NonFinite("nan")
      [] a.nf # "" -> a
      [] b.nf # "" -> b
      [] OTHER -> NormDec(AlignL(a, b) + AlignR(a, b), Max(a.e, b.e))

NumSub(a, b) == NumAdd(a, NumNeg(b))

NumMul(a, b) ==
    CASE a.nf = "nan" \/ b.nf = "nan" -> NonFinite("nan")
      [] a.nf # "" \/ b.nf # "" -> InfOf(Sign(a) * Sign(b))
      [] OTHER -> NormDec(a.m * b.m, a.e + b.e)

\* The quotient of two finite values, b # 0, to DivDigits more digits than
\* the operands have (exact when the quotient has that few digits).
RECURSIVE DivTo(_, _, _)
DivTo(x, y, k) ==
    IF x % y = 0 \/ k = DivDigits
    THEN NormDec((IF (x < 0) = (y < 0) THEN 1 ELSE -1)
                 * ((IF x < 0 THEN 0 - x ELSE x) \div (IF y < 0 THEN 0 - y ELSE y)), k)
    ELSE DivTo(x * 10, y, k + 1)

NumDiv(a, b) ==
    CASE a.nf = "nan" \/ b.nf = "nan" -> NonFinite("nan")
      [] a.nf # "" /\ b.nf # "" -> NonFinite("nan")
      [] a.nf # "" -> InfOf(Sign(a) * (IF Sign(b) < 0 THEN -1 ELSE 1))
      [] b.nf # "" -> Zero
      [] b.m = 0 -> InfOf(Sign(a))
      [] OTHER -> DivTo(AlignL(a, b), AlignR(a, b), 0)

NumLt(a, b) ==
    CASE a.nf = "nan" \/ b.nf = "nan" -> FALSE
      [] a.nf # "" \/ b.nf # "" ->
            (a.nf = "-inf" /\ b.nf # "-inf") \/ (b.nf = "inf" /\ a.nf # "inf")
      [] OTHER -> AlignL(a, b) < AlignR(a, b)

NumEq(a, b) == a.nf # "nan" /\ b.nf # "nan" /\ a = b

NumLe(a, b) == NumLt(a, b) \/ NumEq(a, b)

(***************************************************************************)
(* Environment (src/environment.rs).  The Rc<RefCell<Environment>> cells   *)
(* are the elements of the sequence envs; an Rc is an index into it.       *)
(* values maps a name (String) to a Literal.                               *)
(***************************************************************************)
EmptyMap == [n \in {} |-> LitNil]

EnvironmentNew == [enclosing |-> <<>>, values |-> EmptyMap]

with_enclosing(enclosing) == [enclosing |-> <<enclosing>>, values |-> EmptyMap]

\* HashMap::insert
Insert(values, name, value) ==
    [n \in DOMAIN values \cup {name} |-> IF n = name THEN value ELSE values[n]]

define(envs, e, name, value) ==
    [envs EXCEPT ![e].values = Insert(envs[e].values, name, value)]

Msg(text) == [text |-> text, name |-> <<>>, n |-> 0, m |-> 0]

UndefinedVariable(name) == [text |-> "Undefined variable '{}'.", name |-> name, n |-> 0, m |-> 0]

\* Environment::assign: err is <<>> for Ok(()) and <<message>> for Err.
RECURSIVE assign(_, _, _, _)
\* assign creating the binding in the outermost scope when no scope has it.
assign_create(envs, e, name, value) ==
    IF name \in DOMAIN envs[e].values
    THEN [envs |-> define(envs, e, name, value), err |-> <<>>]
    ELSE IF envs[e].enclosing # <<>>
         THEN assign(envs, envs[e].enclosing[1], name, value)
         ELSE [envs |-> define(envs, e, name, value), err |-> <<>>]

assign(envs, e, name, value) ==
    IF name \in DOMAIN envs[e].values
    THEN [envs |-> define(envs, e, name, value), err |-> <<>>]
    ELSE IF envs[e].enclosing # <<>>
         THEN assign(envs, envs[e].enclosing[1], name, value)
         ELSE [envs |-> envs, err |-> <<UndefinedVariable(name)>>]

\* Environment::get: val is <<v>> for Ok(v); err is <<message>> for Err.
RECURSIVE get(_, _, _)
\* get looking in the outer scopes first.
get_outermost(envs, e, name) ==
    LET outer == IF envs[e].enclosing # <<>> THEN get(envs, envs[e].enclosing[1], name)
                 ELSE [val |-> <<>>, err |-> <<UndefinedVariable(name.lexeme)>>]
    IN  IF outer.err = <<>> THEN outer
        ELSE IF name.lexeme \in DOMAIN envs[e].values
             THEN [val |-> <<envs[e].values[name.lexeme]>>, err |-> <<>>]
             ELSE outer

get(envs, e, name) ==
    IF name.lexeme \in DOMAIN envs[e].values
    THEN [val |-> <<envs[e].values[name.lexeme]>>, err |-> <<>>]
    ELSE IF envs[e].enclosing # <<>>
         THEN get(envs, envs[e].enclosing[1], name)
         ELSE [val |-> <<>>, err |-> <<UndefinedVariable(name.lexeme)>>]

(***************************************************************************)
(* Callables (src/interpreter/callable.rs).                                *)
(***************************************************************************)
\* LoxCallable::Function(LoxFunction::new(name, params, body, closure))
LoxFunctionNew(name, params, body, closure) ==
    [variant |-> "Function", name |-> name, params |-> params, body |-> body,
     closure |-> closure]

\* LoxCallable::Other(Box::new(Clock {}))
Clock == [variant |-> "Other", name |-> <<>>, params |-> <<>>, body |-> <<>>, closure |-> 0]

arity(callable) == IF callable.variant = "Function" THEN Len(callable.params) ELSE 0

(***************************************************************************)
(* Evaluator (src/interpreter/interpreter.rs).  The evaluator state s is   *)
(* the Interpreter (environment, globals) with the heap of environments,   *)
(* what it has printed (out), the reading of the system clock (now) and a  *)
(* history of what it did (log, at nesting depth `depth` of evaluate       *)
(* calls).  A Result<_, InterpreterErrorKind> is a record with kind        *)
(* "Ok", "General" (msg) or "Return" (ret); kind "Panic" is a panic.       *)
(***************************************************************************)
InterpreterNew ==
    [envs        |-> << define(<<EnvironmentNew>>, 1, Chars("clock"), LitCallable(Clock))[1] >>,
     environment |-> 1,
     globals     |-> 1]

ROk(v) == [kind |-> "Ok", val |-> v, ret |-> <<>>, msg |-> Msg("")]

RGeneral(msg) == [kind |-> "General", val |-> LitNil, ret |-> <<>>, msg |-> msg]

RReturn(ret) == [kind |-> "Return", val |-> LitNil, ret |-> ret, msg |-> Msg("")]

RPanic(text) == [kind |-> "Panic", val |-> LitNil, ret |-> <<>>, msg |-> Msg(text)]

Out(s, r) == [s |-> s, r |-> r]

Logged(s, ev) == [s EXCEPT !.log = Append(s.log, ev)]

is_truthy(val) ==
    CASE val.t = "Nil"  -> FALSE
      [] val.t = "Bool" -> val.b
      [] OTHER -> TRUE

is_equal(lhs, rhs) ==
    CASE lhs.t = "Nil" /\ rhs.t = "Nil"       -> TRUE
      [] lhs.t = "Number" /\ rhs.t = "Number" -> NumEq(lhs.num, rhs.num)
      [] lhs.t = "String" /\ rhs.t = "String" -> lhs.s = rhs.s
      [] lhs.t = "Bool" /\ rhs.t = "Bool"     -> lhs.b = rhs.b
      [] OTHER -> FALSE

\* The match on op in the Binary arm of evaluate.
BinaryOp(op, left, right) ==
    LET nums == left.t = "Number" /\ right.t = "Number"
        l == left.num
        r == right.num
    IN  CASE op = "Minus" ->
                IF nums THEN ROk(LitNumber(NumSub(l, r)))
                ELSE RGeneral(Msg("Operands must be numbers"))
          [] op = "Plus" ->
                IF nums THEN ROk(LitNumber(NumAdd(l, r)))
                ELSE IF left.t = "String" /\ right.t = "String"
                     THEN ROk(LitString(left.s \o right.s))
                     ELSE RGeneral(Msg("Operands must be two numbers or two strings"))
          [] op = "Multiply" ->
                IF nums THEN ROk(LitNumber(NumMul(l, r)))
                ELSE RGeneral(Msg("Operands must be numbers"))
          [] op = "Divide" ->
                IF nums THEN ROk(LitNumber(NumDiv(l, r)))
                ELSE RGeneral(Msg("Operands must be numbers"))
          [] op = "Gt" ->
                IF nums THEN ROk(LitBool(NumLt(r, l)))
                ELSE RGeneral(Msg("Operands must be numbers"))
          [] op = "Ge" ->
                IF nums THEN ROk(LitBool(NumLe(r, l)))
                ELSE RGeneral(Msg("Operands must be numbers"))
          [] op = "Lt" ->
                IF nums THEN ROk(LitBool(NumLt(l, r)))
                ELSE RGeneral(Msg("Operands must be numbers"))
          [] op = "Le" ->
                IF nums THEN ROk(LitBool(NumLe(l, r)))
                ELSE RGeneral(Msg("Operands must be numbers"))
          [] op = "EqEq" -> ROk(LitBool(is_equal(left, right)))
          [] op = "Ne"   -> ROk(LitBool(~is_equal(left, right)))
          [] OTHER -> RPanic("unimplemented")

\* The match on op in the Unary arm of evaluate.
UnaryOp(op, right) ==
    IF op = "BinNeg"
    THEN IF right.t = "Number" THEN ROk(LitNumber(NumNeg(right.num)))
         ELSE RGeneral(Msg("Operand must be a number"))
    ELSE ROk(LitBool(is_truthy(right)))

\* The `?` operator on an evaluator result.
Then(o, K(_, _)) == IF o.r.kind # "Ok" THEN o ELSE K(o.s, o.r.val)

RECURSIVE evaluate(_, _), evaluate_kind(_, _), evaluate_arguments(_, _, _),
          LoxCallable_call(_, _, _), LoxFunction_call(_, _, _), define_params(_, _, _, _),
          execute(_, _), while_loop(_, _, _), execute_block(_, _, _), block_stmts(_, _)

\* for argument in arguments { arguments_v.push(self.evaluate(argument)?) }
evaluate_arguments(s, arguments, arguments_v) ==
    IF arguments = <<>> THEN Out(s, [ROk(LitNil) EXCEPT !.ret = arguments_v])
    ELSE Then(evaluate(s, arguments[1]),
              LAMBDA s1, v: evaluate_arguments(s1, Tail(arguments), Append(arguments_v, v)))

\* The Call arm of evaluate without the comparison of arguments.len() with
\* the arity.
EvaluateCall_unchecked(s, expr) ==
    Then(evaluate(s, expr.callee), LAMBDA s1, callee:
        IF callee.t # "Callable"
        THEN Out(s1, RGeneral(Msg("Can only call functions and classes")))
        ELSE LET callee_v == callee.fn[1] IN
             Let(evaluate_arguments(s1, expr.arguments, <<>>), LAMBDA a:
                 IF a.r.kind # "Ok" THEN a
                 ELSE LoxCallable_call(a.s, callee_v, a.r.ret)))

\* The Call arm of evaluate.
EvaluateCall(s, expr) ==
    Then(evaluate(s, expr.callee), LAMBDA s1, callee:
        IF callee.t # "Callable"
        THEN Out(s1, RGeneral(Msg("Can only call functions and classes")))
        ELSE LET callee_v == callee.fn[1] IN
             IF Len(expr.arguments) # arity(callee_v)
             THEN Out(s1, RGeneral([text |-> "Expected {} arguments but got {}.",
                                    name |-> <<>>, n |-> arity(callee_v),
                                    m |-> Len(expr.arguments)]))
             ELSE Let(evaluate_arguments(s1, expr.arguments, <<>>), LAMBDA a:
                      IF a.r.kind # "Ok" THEN a
                      ELSE LoxCallable_call(a.s, callee_v, a.r.ret)))

\* The Assign arm of evaluate.
EvaluateAssign(s, expr) ==
    Then(evaluate(s, expr.expr), LAMBDA s1, value:
        LET a  == assign(s1.envs, s1.environment, expr.name.lexeme, value)
            s2 == Logged([s1 EXCEPT !.envs = a.envs],
                         [ev |-> "assign", env |-> s1.environment,
                          name |-> expr.name.lexeme, val |-> value, err |-> a.err,
                          before |-> s1.envs, after |-> a.envs])
        IN  IF a.err # <<>> THEN Out(s2, RGeneral(a.err[1])) ELSE Out(s2, ROk(value)))

\* The Logical arm evaluating both operands before it chooses.
EvaluateLogical_eager(s, expr) ==
    Then(evaluate(s, expr.lhs), LAMBDA s1, left:
        Then(evaluate(s1, expr.rhs), LAMBDA s2, right:
            IF (expr.op = "And" /\ ~is_truthy(left)) \/ (expr.op = "Or" /\ is_truthy(left))
            THEN Out(s2, ROk(left))
            ELSE Out(s2, ROk(right))))

\* The Logical arm of evaluate.
EvaluateLogical(s, expr) ==
    Then(evaluate(s, expr.lhs), LAMBDA s1, left:
        IF (expr.op = "And" /\ ~is_truthy(left)) \/ (expr.op = "Or" /\ is_truthy(left))
        THEN Out(s1, ROk(left))
        ELSE evaluate(s1, expr.rhs))

\* The Binary arm evaluating the right operand first.
EvaluateBinary_right_first(s, expr) ==
    Then(evaluate(s, expr.rhs), LAMBDA s1, right:
        Then(evaluate(s1, expr.lhs), LAMBDA s2, left:
            Out(s2, BinaryOp(expr.op, left, right))))

\* The Binary arm of evaluate.
EvaluateBinary(s, expr) ==
    Then(evaluate(s, expr.lhs), LAMBDA s1, left:
        Then(evaluate(s1, expr.rhs), LAMBDA s2, right:
            Out(s2, BinaryOp(expr.op, left, right))))

\* The match on &expr.kind in evaluate.
evaluate_kind(s, expr) ==
    CASE expr.kind = "Literal"  -> Out(s, ROk(expr.lit))
      [] expr.kind = "Grouping" -> evaluate(s, expr.expr)
      [] expr.kind = "Variable" ->
            Let(get(s.envs, s.environment, expr.name), LAMBDA g:
                Out(Logged(s, [ev |-> "get", env |-> s.environment,
                               name |-> expr.name.lexeme, envs |-> s.envs,
                               val |-> g.val, err |-> g.err, after |-> s.envs]),
                    IF g.err = <<>> THEN ROk(g.val[1]) ELSE RGeneral(g.err[1])))
      [] expr.kind = "Assign" -> EvaluateAssign(s, expr)
      [] expr.kind = "Call" -> EvaluateCall(s, expr)
      [] expr.kind = "Unary" ->
            Then(evaluate(s, expr.expr), LAMBDA s1, right: Out(s1, UnaryOp(expr.op, right)))
      [] expr.kind = "Logical" -> EvaluateLogical(s, expr)
      [] expr.kind = "Binary" -> EvaluateBinary(s, expr)

\* Interpreter::evaluate, with the call and its return written to the log.
evaluate(s, expr) ==
    LET d == s.depth IN
    Let(evaluate_kind(Logged([s EXCEPT !.depth = d + 1],
                             [ev |-> "enter", depth |-> d + 1, expr |-> expr]), expr),
        LAMBDA o:
            Out([Logged(o.s, [ev |-> "leave", depth |-> d + 1, expr |-> expr, r |-> o.r])
                    EXCEPT !.depth = d], o.r))

\* for i in 0..self.params.len() { environment.define(params[i].lexeme, args[i]) }
\* env is <<>> when args[i] is out of bounds.
define_params(env, params, args, i) ==
    IF i > Len(params) THEN <<env>>
    ELSE IF i > Len(args) THEN <<>>
         ELSE define_params([env EXCEPT !.values = Insert(env.values, params[i].lexeme, args[i])],
                            params, args, i + 1)

\* LoxFunction::call with the fresh environment enclosing the caller's
\* current environment.
LoxFunction_call_dynamic(s, fun, args) ==
    LET environment == define_params(with_enclosing(s.environment), fun.params, args, 1) IN
    IF environment = <<>> THEN Out(s, RPanic("index out of bounds"))
    ELSE LET fresh == Len(s.envs) + 1
             s1 == Logged([s EXCEPT !.envs = Append(s.envs, environment[1])],
                          [ev |-> "call", fun |-> fun, args |-> args, env |-> fresh,
                           caller |-> s.environment, bound |-> environment[1].values])
         IN  Let(execute_block(s1, fun.body, fresh), LAMBDA o:
                 CASE o.r.kind = "Return" ->
                        Out(o.s, ROk(IF o.r.ret # <<>> THEN o.r.ret[1] ELSE LitNil))
                   [] o.r.kind = "Ok" -> Out(o.s, ROk(LitNil))
                   [] OTHER -> o)

\* LoxFunction::call with a closure held by value: the fresh environment
\* encloses a copy of the captured environment.
LoxFunction_call_copy(s, fun, args) ==
    LET copy == Len(s.envs) + 1
        environment == define_params(with_enclosing(copy), fun.params, args, 1)
    IN
    IF environment = <<>> THEN Out(s, RPanic("index out of bounds"))
    ELSE LET fresh == Len(s.envs) + 2
             s1 == Logged([s EXCEPT !.envs = s.envs \o <<s.envs[fun.closure], environment[1]>>],
                          [ev |-> "call", fun |-> fun, args |-> args, env |-> fresh,
                           caller |-> s.environment, bound |-> environment[1].values])
         IN  Let(execute_block(s1, fun.body, fresh), LAMBDA o:
                 CASE o.r.kind = "Return" ->
                        Out(o.s, ROk(IF o.r.ret # <<>> THEN o.r.ret[1] ELSE LitNil))
                   [] o.r.kind = "Ok" -> Out(o.s, ROk(LitNil))
                   [] OTHER -> o)

\* LoxFunction::call with `Err(_) => Ok(Literal::Nil)` for an error other
\* than Return.
LoxFunction_call_absorb(s, fun, args) ==
    LET environment == define_params(with_enclosing(fun.closure), fun.params, args, 1) IN
    IF environment = <<>> THEN Out(s, RPanic("index out of bounds"))
    ELSE LET fresh == Len(s.envs) + 1
             s1 == Logged([s EXCEPT !.envs = Append(s.envs, environment[1])],
                          [ev |-> "call", fun |-> fun, args |-> args, env |-> fresh,
                           caller |-> s.environment, bound |-> environment[1].values])
         IN  Let(execute_block(s1, fun.body, fresh), LAMBDA o:
                 CASE o.r.kind = "Return" ->
                        Out(o.s, ROk(IF o.r.ret # <<>> THEN o.r.ret[1] ELSE LitNil))
                   [] o.r.kind = "Panic" -> o
                   [] OTHER -> Out(o.s, ROk(LitNil)))

\* LoxFunction::call
LoxFunction_call(s, fun, args) ==
    LET environment == define_params(with_enclosing(fun.closure), fun.params, args, 1) IN
    IF environment = <<>> THEN Out(s, RPanic("index out of bounds"))
    ELSE LET fresh == Len(s.envs) + 1
             s1 == Logged([s EXCEPT !.envs = Append(s.envs, environment[1])],
                          [ev |-> "call", fun |-> fun, args |-> args, env |-> fresh,
                           caller |-> s.environment, bound |-> environment[1].values])
         IN  Let(execute_block(s1, fun.body, fresh), LAMBDA o:
                 CASE o.r.kind = "Return" ->
                        Out(o.s, ROk(IF o.r.ret # <<>> THEN o.r.ret[1] ELSE LitNil))
                   [] o.r.kind = "Ok" -> Out(o.s, ROk(LitNil))
                   [] OTHER -> o)

\* impl Callable for LoxCallable: call
LoxCallable_call(s, callable, args) ==
    IF callable.variant = "Function" THEN LoxFunction_call(s, callable, args)
    ELSE Out(s, ROk(LitNumber(s.now)))

\* The loop of execute_block without the `break` for a Return: the remaining
\* statements run before the Return is handed on.
block_stmts_past_return(s, stmts) ==
    IF stmts = <<>> THEN Out(s, ROk(LitNil))
    ELSE Let(execute(s, stmts[1]), LAMBDA o:
             CASE o.r.kind = "Ok" -> block_stmts(o.s, Tail(stmts))
               [] o.r.kind = "Return" ->
                    Let(block_stmts(o.s, Tail(stmts)), LAMBDA o2:
                        IF o2.r.kind = "Ok" THEN Out(o2.s, o.r) ELSE o2)
               [] OTHER -> o)

\* for stmt in stmts { if let Err(e) = self.execute(stmt) { err.replace(e); break; } }
block_stmts(s, stmts) ==
    IF stmts = <<>> THEN Out(s, ROk(LitNil))
    ELSE Let(execute(s, stmts[1]), LAMBDA o:
             IF o.r.kind # "Ok" THEN o ELSE block_stmts(o.s, Tail(stmts)))

\* execute_block leaving the loop with `?`: the pointer is restored only when
\* every statement succeeded.
execute_block_leak(s, stmts, environment) ==
    LET previous == s.environment IN
    Let(block_stmts([s EXCEPT !.environment = environment], stmts), LAMBDA o:
        IF o.r.kind = "Panic" THEN o
        ELSE LET s1 == IF o.r.kind = "Ok" THEN [o.s EXCEPT !.environment = previous] ELSE o.s
             IN  Out(Logged(s1, [ev |-> "block", env |-> environment, before |-> previous,
                                 after |-> s1.environment, how |-> o.r.kind,
                                 r |-> o.r]), o.r))

\* execute_block restoring the pointer except when a Return unwinds through it.
execute_block_return_leak(s, stmts, environment) ==
    LET previous == s.environment IN
    Let(block_stmts([s EXCEPT !.environment = environment], stmts), LAMBDA o:
        IF o.r.kind = "Panic" THEN o
        ELSE LET s1 == IF o.r.kind = "Return" THEN o.s ELSE [o.s EXCEPT !.environment = previous]
             IN  Out(Logged(s1, [ev |-> "block", env |-> environment, before |-> previous,
                                 after |-> s1.environment, how |-> o.r.kind,
                                 r |-> o.r]), o.r))

\* Interpreter::execute_block
execute_block(s, stmts, environment) ==
    LET previous == s.environment IN
    Let(block_stmts([s EXCEPT !.environment = environment], stmts), LAMBDA o:
        IF o.r.kind = "Panic" THEN o
        ELSE LET s1 == [o.s EXCEPT !.environment = previous] IN
             Out(Logged(s1, [ev |-> "block", env |-> environment, before |-> previous,
                             after |-> s1.environment, how |-> o.r.kind,
                                 r |-> o.r]), o.r))

\* while is_truthy(&self.evaluate(condition)?) { self.execute(body)?; }
while_loop(s, condition, body) ==
    Then(evaluate(s, condition), LAMBDA s1, c:
        IF is_truthy(c)
        THEN Then(execute(s1, body), LAMBDA s2, v: while_loop(s2, condition, body))
        ELSE Out(s1, ROk(LitNil)))

\* The Function arm of execute.
ExecuteFunction(s, stmt) ==
    LET func == LoxFunctionNew(stmt.name.lexeme, stmt.params, stmt.body, s.environment) IN
    Out(Logged([s EXCEPT !.envs = define(s.envs, s.environment, stmt.name.lexeme,
                                         LitCallable(func))],
               [ev |-> "function", env |-> s.environment, name |-> stmt.name.lexeme,
                fun |-> func]),
        ROk(LitNil))

\* Interpreter::execute
execute(s, stmt) ==
    CASE stmt.kind = "Print" ->
            Then(evaluate(s, stmt.expr), LAMBDA s1, value:
                Out(Logged([s1 EXCEPT !.out = Append(s1.out, value)],
                           [ev |-> "print", val |-> value]), ROk(LitNil)))
      [] stmt.kind = "Expression" ->
            Then(evaluate(s, stmt.expr), LAMBDA s1, value: Out(s1, ROk(LitNil)))
      [] stmt.kind = "Var" ->
            LET o == IF stmt.initializer # <<>> THEN evaluate(s, stmt.initializer[1])
                     ELSE Out(s, ROk(LitNil))
            IN  Then(o, LAMBDA s1, value:
                    Out(Logged([s1 EXCEPT !.envs = define(s1.envs, s1.environment,
                                                          stmt.name.lexeme, value)],
                               [ev |-> "define", env |-> s1.environment,
                                name |-> stmt.name.lexeme, val |-> value]),
                        ROk(LitNil)))
      [] stmt.kind = "Block" ->
            LET environment == s.environment
                fresh == Len(s.envs) + 1
            IN  execute_block([s EXCEPT !.envs = Append(s.envs, with_enclosing(environment))],
                              stmt.stmts, fresh)
      [] stmt.kind = "If" ->
            Then(evaluate(s, stmt.condition), LAMBDA s1, c:
                IF is_truthy(c) THEN execute(s1, stmt.then_stmt)
                ELSE IF stmt.else_stmt # <<>> THEN execute(s1, stmt.else_stmt[1])
                     ELSE Out(s1, ROk(LitNil)))
      [] stmt.kind = "While" -> while_loop(s, stmt.condition, stmt.body)
      [] stmt.kind = "Function" -> ExecuteFunction(s, stmt)
      [] stmt.kind = "Return" ->
            IF stmt.value # <<>>
            THEN Then(evaluate(s, stmt.value[1]), LAMBDA s1, value:
                     Out(Logged(s1, [ev |-> "return", r |-> RReturn(<<value>>)]),
                         RReturn(<<value>>)))
            ELSE Out(Logged(s, [ev |-> "return", r |-> RReturn(<<>>)]), RReturn(<<>>))

(***************************************************************************)
(* Runner (src/runner.rs).                                                 *)
(***************************************************************************)
\* for stmt in stmts { if let Err(e) = self.interpreter.execute(&stmt) { .. } }
RECURSIVE run_stmts(_, _, _)
\* The loop of Runner::run reporting a runtime error and going on.
run_stmts_continue(s, sts, i) ==
    IF i > Len(sts) THEN [s |-> s, result |-> "Ok", stderr |-> <<>>]
    ELSE Let(execute(Logged(s, [ev |-> "stmt", index |-> i]), sts[i]), LAMBDA o:
         LET s1 == Logged(o.s, [ev |-> "stmt_end", index |-> i, how |-> o.r.kind])
         IN  CASE o.r.kind = "Panic" -> [s |-> s1, result |-> "Panic", stderr |-> <<o.r.msg>>]
               [] OTHER -> run_stmts(s1, sts, i + 1))

run_stmts(s, sts, i) ==
    IF i > Len(sts) THEN [s |-> s, result |-> "Ok", stderr |-> <<>>]
    ELSE Let(execute(Logged(s, [ev |-> "stmt", index |-> i]), sts[i]), LAMBDA o:
         LET s1 == Logged(o.s, [ev |-> "stmt_end", index |-> i, how |-> o.r.kind])
         IN  CASE o.r.kind = "General" -> [s |-> s1, result |-> "Err", stderr |-> <<o.r.msg>>]
               [] o.r.kind = "Panic"   -> [s |-> s1, result |-> "Panic", stderr |-> <<o.r.msg>>]
               [] OTHER -> run_stmts(s1, sts, i + 1))

\* The evaluator state at the start of a call of Runner::run on the
\* Interpreter interp; the history begins with the heap the call starts from.
RunStart(interp, now) ==
    [envs |-> interp.envs, environment |-> interp.environment,
     globals |-> interp.globals, out |-> <<>>, depth |-> 0, now |-> now,
     log |-> <<[ev |-> "run", envs |-> interp.envs, environment |-> interp.environment,
                globals |-> interp.globals]>>]

\* Runner::run building a new Interpreter for the call.
RunnerRun_fresh(interp, text, now) ==
    Let(tokenize(text), LAMBDA lexed:
    Let(parse(lexed.tokens), LAMBDA parsed:
        IF lexed.panic \/ parsed.panic
        THEN [s |-> RunStart(InterpreterNew, now), result |-> "Panic",
              stderr |-> <<Msg("unwrap")>>, stmts |-> parsed.statements]
        ELSE Let(run_stmts(RunStart(InterpreterNew, now), parsed.statements, 1), LAMBDA r:
                 [s |-> r.s, result |-> r.result, stderr |-> r.stderr,
                  stmts |-> parsed.statements])))

\* Runner::run(code), the system clock reading `now`.
RunnerRun(interp, text, now) ==
    LET s0 == RunStart(interp, now)
    IN  Let(tokenize(text), LAMBDA lexed:
        Let(parse(lexed.tokens), LAMBDA parsed:
            IF lexed.panic \/ parsed.panic
            THEN [s |-> s0, result |-> "Panic", stderr |-> <<Msg("unwrap")>>,
                  stmts |-> parsed.statements]
            ELSE Let(run_stmts(s0, parsed.statements, 1), LAMBDA r:
                     [s |-> r.s, result |-> r.result, stderr |-> r.stderr,
                      stmts |-> parsed.statements])))

(***************************************************************************)
(* The lexer as a state machine: one action per call of the iterator.      *)
(***************************************************************************)
LexAlphabet == {"!", "=", "<", ">", "/", " ", "\n", "\"", "1", ".", "o", "r", "@", NUL}

RECURSIVE SeqsUpTo(_, _)
SeqsUpTo(S, n) ==
    IF n = 0 THEN {<<>>}
    ELSE LET P == SeqsUpTo(S, n - 1) IN
         P \cup {Append(p, x) : p \in {q \in P : Len(q) = n - 1}, x \in S}

LexIdle ==
    /\ input = <<>>
    /\ cursor = CursorNew(<<>>)
    /\ tokens = <<>>
    /\ ended = "no"

ParseIdle ==
    /\ source = <<>>
    /\ stream = <<>>
    /\ pstatements = <<>>
    /\ perrors = <<>>
    /\ pstate = "parsing"

RunIdle ==
    /\ interpreter = InterpreterNew
    /\ code = <<>>
    /\ rstmts = <<>>
    /\ rresult = "none"
    /\ out = <<>>
    /\ stderr = <<>>
    /\ log = <<>>
    /\ runs = 0

LexInit ==
    /\ input \in SeqsUpTo(LexAlphabet, MaxInputLen)
    /\ cursor = CursorNew(input)
    /\ tokens = <<>>
    /\ ended = "no"
    /\ ParseIdle
    /\ RunIdle

\* The iterator yields a token.
LexToken ==
    /\ ended = "no"
    /\ \E r \in {tokenize_next(cursor)} :
       /\ r.item # <<>>
       /\ cursor' = r.cur
       /\ tokens' = tokens \o r.item
       /\ ended' = IF r.panic THEN "panic" ELSE "no"
    /\ UNCHANGED <<input, parsevars, runvars>>

\* The iterator returns None.
LexEnd ==
    /\ ended = "no"
    /\ tokenize_next(cursor).item = <<>>
    /\ ended' = "yes"
    /\ UNCHANGED <<input, cursor, tokens, parsevars, runvars>>

LexNext == LexToken \/ LexEnd

SpecLex == LexInit /\ [][LexNext]_vars

(***************************************************************************)
(* The parser as a state machine: one action per iteration of the loop of  *)
(* Parser::parse, on the tokens of a text made of a few fragments.         *)
(***************************************************************************)
ParseFrags ==
    { Chars("print 1;"), Chars("print ;"), Chars("print 2"), Chars("var a = 1;"),
      Chars("var a = 1"), Chars("1 = 2;"), Chars("a != 1;"), Chars("{ print 2; }"),
      Chars("{"), Chars("}"), Chars("@"), Chars("fun f(a) { return a; }"),
      Chars("f(1, a)"), Chars("for (;;) a = 1;"), Chars("if (a) print 1; else"),
      Chars("\"open"), <<NUL>>, Chars("print (1 + ;") }

RECURSIVE Texts(_, _)
Texts(F, n) ==
    IF n = 0 THEN {<<>>}
    ELSE LET P == Texts(F, n - 1) IN P \cup {p \o <<" ">> \o f : p \in P, f \in F}

\* The text of a for statement from its clauses: the initializer with its
\* ';' (or the ';' alone), the condition, the increment and the body; a
\* clause that is present starts with a space.
ForText(init, cond, incr, body) ==
    Chars("for (") \o init \o cond \o Chars(";") \o incr \o Chars(")") \o body

ForInits == {Chars(";"), Chars("var i = 0;"), Chars("i = 0;")}

ForConds == {<<>>, Chars(" i < 2")}

ForIncrs == {<<>>, Chars(" i = i + 1")}

ForBodies == {Chars(" print i;"), Chars(" { print i; }")}

ForTexts ==
    {ForText(init, cond, incr, body) :
        init \in ForInits, cond \in ForConds, incr \in ForIncrs, body \in ForBodies}

\* The binary operators of the expression grammar with the level of the
\* parsing method that accepts them (Parser::or is 1, Parser::factor is 6).
Operators ==
    { [text |-> Chars("or"), level |-> 1, kind |-> "Logical", op |-> "Or"],
      [text |-> Chars("and"), level |-> 2, kind |-> "Logical", op |-> "And"],
      [text |-> Chars("=="), level |-> 3, kind |-> "Binary", op |-> "EqEq"],
      [text |-> Chars("!="), level |-> 3, kind |-> "Binary", op |-> "Ne"],
      [text |-> Chars("<"), level |-> 4, kind |-> "Binary", op |-> "Lt"],
      [text |-> Chars(">="), level |-> 4, kind |-> "Binary", op |-> "Ge"],
      [text |-> Chars("+"), level |-> 5, kind |-> "Binary", op |-> "Plus"],
      [text |-> Chars("-"), level |-> 5, kind |-> "Binary", op |-> "Minus"],
      [text |-> Chars("*"), level |-> 6, kind |-> "Binary", op |-> "Multiply"],
      [text |-> Chars("/"), level |-> 6, kind |-> "Binary", op |-> "Divide"] }

\* The expression statement ` a o1 b o2 c;`.
ExprText(o1, o2) ==
    Chars(" a ") \o o1.text \o Chars(" b ") \o o2.text \o Chars(" c;")

\* Expression statements with two binary operators, with assignments, with
\* unary operators and with calls.
ExprTexts ==
    {ExprText(o1, o2) : o1 \in Operators, o2 \in Operators}
        \cup {Chars(" a = b = c;"), Chars(" a = b or c;"), Chars(" - ! a * b;"),
              Chars(" ! a == - b;"), Chars(" - a (b) (c);")}

\* Expression statements with `=` after an expression that is not a variable.
TargetTexts ==
    { Chars("1 = 2;"), Chars("(a) = 2;"), Chars("a + b = c;"), Chars("f() = a = 1;"),
      Chars("1 = ;"), Chars("1 = print 2;") }

\* n names separated by commas.
Names(n) == [i \in 1..(2 * n - 1) |-> IF i % 2 = 1 THEN "a" ELSE ","]

\* A call with n arguments and a function declaration with n parameters.
CallText(n) == Chars("f(") \o Names(n) \o Chars(");")

FunText(n) == Chars("fun f(") \o Names(n) \o Chars(") { }")

ArityTexts ==
    {CallText(n) : n \in {1, MaxArity, MaxArity + 1, MaxArity + 2}}
        \cup {FunText(n) : n \in {1, MaxArity, MaxArity + 1, MaxArity + 2}}

Sources ==
    Texts(ParseFrags, MaxFrags) \cup ForTexts \cup ExprTexts \cup TargetTexts \cup ArityTexts

ParseInit ==
    /\ source \in Sources
    /\ stream = tokenize(source).tokens
    /\ pstatements = <<>>
    /\ perrors = <<>>
    /\ pstate = "parsing"
    /\ LexIdle
    /\ RunIdle

\* while !self.is_at_end() { if let Some(stmt) = self.declaration() { .. } }
ParseDeclaration ==
    /\ pstate = "parsing"
    /\ ~is_at_end(stream)
    /\ \E d \in {declaration(stream)} :
       /\ stream' = d.toks
       /\ pstatements' = pstatements \o d.v
       /\ perrors' = IF d.st = "err" THEN Append(perrors, d.msg) ELSE perrors
       /\ pstate' = IF d.st = "panic" THEN "panic" ELSE "parsing"
    /\ UNCHANGED <<source, lexvars, runvars>>

\* Parser::parse returns `pstatements`.
ParseEnd ==
    /\ pstate = "parsing"
    /\ is_at_end(stream)
    /\ pstate' = "done"
    /\ UNCHANGED <<source, stream, pstatements, perrors, lexvars, runvars>>

ParseNext == ParseDeclaration \/ ParseEnd

SpecParse == ParseInit /\ [][ParseNext]_vars

(***************************************************************************)
(* The session: a Runner and the calls of Runner::run on it.               *)
(***************************************************************************)
Programs ==
    { Chars("var a = 1; { var a = 2; print a; } print a;"),
      Chars("{ var b = 1; print b + nil; } print 2;"),
      Chars("{ print 1; } fun f() { var c = 1; { return c; } } print f(); { var d = f() + nil; }"),
      Chars("print 1 + \"a\"; print 2;"),
      Chars("var x = 1; fun g() { return x; } { var x = 2; print g(); }"),
      Chars("fun mk() { var i = 0; fun inc() { i = i + 1; return i; } return inc; } var h = mk(); print h(); print h();"),
      Chars("var a = 1; { var b = 2; { a = 3; b = 4; c = 5; } }"),
      Chars("var a = 0; print nil or \"x\"; print false and (a = 1); print 1 and (a = 2); print true or (a = 3); print a;"),
      Chars("var a = 0; print (a = 1) - (a = 3); print (a = 4) + (a = \"s\");"),
      Chars("var a = 0; print nosuch + (a = 1);"),
      Chars("fun k(p, q) { return p - q; } var a = 0; print k(a = 5, a = 2); k(a = 7);"),
      Chars("var t = clock(); print t - clock() < 1; clock(1);"),
      Chars("return 1; print 2;"),
      Chars("print !nil; print -a;"),
      Chars("print 1 != 2;"),
      Chars("for (var i = 0; i < 2; i = i + 1) print i;"),
      Chars("print ; print 2; print a;"),
      Chars("a = 2; \"s\"();"),
      Chars("fun f() {} print f == clock; print clock == clock; print f == f;"),
      Chars("fun n(){} fun b(){return;} fun v(){return 2;} fun e(){-nil;} print n(); b(); v(); e(); b();"),
      Chars("fun f(){{-nil;}} {f();}"),
      Chars("fun f(){while(true){if(true)return 1;print 7;}print 8;} fun g(){print f();return 5;} print g();"),
      Chars("fun mk(){var i=0;fun get(){return i;}fun inc(){i=i+1;return get();}return inc;} var f=mk();var g=mk();print f();print f();print f();print g();") }

Clocks == {[m |-> 1700000000, e |-> 0, nf |-> ""], [m |-> 1700000001, e |-> 0, nf |-> ""]}

RunInit ==
    /\ RunIdle
    /\ LexIdle
    /\ ParseIdle

\* A call of Runner::run(code); a process that has panicked makes no call.
Run(text, now) ==
    /\ runs < MaxRuns
    /\ rresult # "Panic"
    /\ \E r \in {RunnerRun(interpreter, text, now)} :
       /\ interpreter' = [envs |-> r.s.envs, environment |-> r.s.environment,
                          globals |-> r.s.globals]
       /\ code' = text
       /\ rstmts' = r.stmts
       /\ rresult' = r.result
       /\ out' = r.s.out
       /\ stderr' = r.stderr
       /\ log' = r.s.log
    /\ runs' = runs + 1
    /\ UNCHANGED <<lexvars, parsevars>>

Init == RunInit

Next == \E text \in Programs, now \in Clocks : Run(text, now)

Spec == Init /\ [][Next]_vars

(***************************************************************************)
(* Reading the history of a call of Runner::run.                           *)
(***************************************************************************)
IsEnter(i) == log[i].ev = "enter"

IsLeave(i) == log[i].ev = "leave"

\* The return of the evaluate call entered at position i of the log.
LeaveOf(i) ==
    LET later == {j \in (i + 1)..Len(log) : log[j].ev = "leave" /\ log[j].depth = log[i].depth}
    IN  CHOOSE j \in later : \A k \in later : j <= k

\* Position j of the log is the call evaluate(e), one level below depth d.
EntersAt(j, e, d) ==
    j \in DOMAIN log /\ log[j].ev = "enter" /\ log[j].expr = e /\ log[j].depth = d + 1

\* Position j of the log is the return of the evaluate call entered at i,
\* with result r.
LeavesAt(j, i, r) == j = LeaveOf(i) /\ log[j].r = r

\* The scopes from e outwards.
RECURSIVE Chain(_, _)
Chain(envs, e) ==
    IF envs[e].enclosing = <<>> THEN <<e>> ELSE <<e>> \o Chain(envs, envs[e].enclosing[1])

\* The scopes on the chain from e that bind name, innermost first.
Binders(envs, e, name) == SelectSeq(Chain(envs, e), LAMBDA x : name \in DOMAIN envs[x].values)

(***************************************************************************)
(* Claims.                                                                 *)
(***************************************************************************)

\* C1: every execution of execute_block (a Block statement or a function
\* body), whether it ends normally, with a runtime error or with a Return
\* signal, leaves the current-environment pointer at the environment it
\* pointed to before the block began.
C1_ScopeDiscipline ==
    \A i \in DOMAIN log :
        log[i].ev = "block" => log[i].after = log[i].before

\* A call in which blocks ended normally, with a Return signal and with a
\* runtime error, one of them nested in another scope than the global one.
C1_Witness ==
    /\ \A how \in {"Ok", "Return", "General"} :
          \E i \in DOMAIN log : log[i].ev = "block" /\ log[i].how = how
    /\ \E i \in DOMAIN log :
          log[i].ev = "block" /\ log[i].how = "Return" /\ log[i].before # interpreter.globals

\* C2: when a top-level statement raises a runtime error, run returns an error
\* and nothing of a later top-level statement of that call happens: the
\* history of the call ends with the failing statement.
C2_ErrorHalts ==
    \A i \in DOMAIN log :
        log[i].ev = "stmt_end" /\ log[i].how = "General"
            => i = Len(log) /\ rresult = "Err" /\ stderr # <<>>

\* A call that failed in a statement that is not the last one parsed.
C2_Witness ==
    /\ rresult = "Err"
    /\ \E i \in DOMAIN log :
          log[i].ev = "stmt_end" /\ log[i].how = "General" /\ log[i].index < Len(rstmts)

\* C3: parsing is total: Parser::parse returns a list of statements for every
\* token sequence of the lexer and never panics.
C3_ParsingTotal == pstate # "panic"

\* C4: lexing is total: the iterator yields finitely many tokens (at most one
\* per character) and then ends with the input consumed; every token it
\* yields consumed at least one character; it never panics.
RECURSIVE SumLengths(_)
SumLengths(ts) == IF ts = <<>> THEN 0 ELSE ts[1].length + SumLengths(Tail(ts))

C4_LexingTotal ==
    /\ ended # "panic"
    /\ \A i \in DOMAIN tokens : tokens[i].length >= 1
    /\ SumLengths(tokens) = Len(input) - Len(cursor.chars)
    /\ Len(tokens) <= Len(input)
    /\ ended = "yes" => cursor.chars = <<>>

\* The iterator has ended after several tokens, one of them Unknown.
C4_Witness ==
    /\ ended = "yes"
    /\ Len(tokens) >= 2
    /\ \E i \in DOMAIN tokens : tokens[i].value.kind = "Unknown"

\* C5: when a statement fails to parse, it contributes no statement and the
\* well-formed statement that follows it is still parsed: for a text made of
\* a statement that ends with ';' and fails to parse, followed by a
\* well-formed statement, the output is that well-formed statement.
ParseOf(text) == parse(tokenize(text).tokens)

WellFormed(text) ==
    LET r == ParseOf(text) IN Len(r.statements) = 1 /\ r.errors = <<>> /\ ~r.panic

FailedStatement(text) ==
    LET r == ParseOf(text) IN
    r.statements = <<>> /\ Len(r.errors) = 1 /\ ~r.panic /\ text[Len(text)] = ";"

C5_ErrorRecovery ==
    pstate = "done" =>
        \A f, g \in ParseFrags :
            FailedStatement(f) /\ WellFormed(g) /\ source = <<" ">> \o f \o <<" ">> \o g
                => pstatements = ParseOf(g).statements

\* C6: a function value captures the environment that is current when its
\* declaration executes, and every call of it runs the body in a fresh
\* environment whose enclosing scope is that captured environment, whatever
\* the caller's current environment is.
C6_ClosureCapture ==
    /\ \A i \in DOMAIN log :
          log[i].ev = "function" => log[i].fun.closure = log[i].env
    /\ \A i \in DOMAIN log :
          log[i].ev = "call" =>
              /\ interpreter.envs[log[i].env].enclosing = <<log[i].fun.closure>>
              /\ \A j \in DOMAIN log :
                    j > i /\ log[j].ev = "block" /\ log[j].env = log[i].env
                        => log[j].before = log[i].caller

\* A function is called from a scope that is not the one it was declared in,
\* and the variable it reads is shadowed at the call site.
C6_Witness ==
    /\ \E i \in DOMAIN log :
          /\ log[i].ev = "call"
          /\ log[i].caller # log[i].fun.closure
          /\ Chars("x") \in DOMAIN interpreter.envs[log[i].caller].values
          /\ Chars("x") \in DOMAIN interpreter.envs[log[i].fun.closure].values
    /\ out = <<LitNumber([m |-> 1, e |-> 0, nf |-> ""])>>

\* C7: assign(name, v) updates the binding of the innermost scope of the
\* chain that binds name and changes no other scope; when no scope of the
\* chain binds name it fails with "Undefined variable" and changes nothing.
C7_AssignFrame ==
    \A i \in DOMAIN log :
        log[i].ev = "assign" =>
            LET b == Binders(log[i].before, log[i].env, log[i].name) IN
            IF b # <<>>
            THEN /\ log[i].err = <<>>
                 /\ log[i].after =
                        [log[i].before EXCEPT ![b[1]].values[log[i].name] = log[i].val]
            ELSE /\ log[i].err = <<UndefinedVariable(log[i].name)>>
                 /\ log[i].after = log[i].before

\* An assignment that updated an outer scope from an inner one, and one
\* that failed from a nested scope.
C7_Witness ==
    /\ \E i \in DOMAIN log :
          /\ log[i].ev = "assign"
          /\ log[i].err = <<>>
          /\ Binders(log[i].before, log[i].env, log[i].name)[1] # log[i].env
    /\ \E i \in DOMAIN log :
          /\ log[i].ev = "assign"
          /\ log[i].err # <<>>
          /\ Len(Chain(log[i].before, log[i].env)) >= 2

\* C8: Logical(op, a, b) evaluates a first; when a decides the result (a not
\* truthy for `and`, a truthy for `or`) the result is a's value and b is not
\* evaluated; otherwise b is evaluated next and the result is b's result.
ShortCircuits(op, left) ==
    (op = "And" /\ left.t \in {"Nil"}) \/ (op = "And" /\ left.t = "Bool" /\ ~left.b)
    \/ (op = "Or" /\ ~(left.t = "Nil") /\ ~(left.t = "Bool" /\ ~left.b))

C8_ShortCircuit ==
    \A i \in DOMAIN log :
        IsEnter(i) /\ log[i].expr.kind = "Logical" =>
            LET e == log[i].expr
                d == log[i].depth
                j == LeaveOf(i + 1)
            IN  /\ EntersAt(i + 1, e.lhs, d)
                /\ IF log[j].r.kind # "Ok" THEN LeavesAt(j + 1, i, log[j].r)
                   ELSE IF ShortCircuits(e.op, log[j].r.val)
                        THEN LeavesAt(j + 1, i, ROk(log[j].r.val))
                        ELSE /\ EntersAt(j + 1, e.rhs, d)
                             /\ LeavesAt(LeaveOf(j + 1) + 1, i, log[LeaveOf(j + 1)].r)

\* A call in which an `and` and an `or` skipped an assignment, and an `and`
\* and an `or` went on to their right operand.
C8_Witness ==
    \A op \in {"And", "Or"} :
        /\ \E i \in DOMAIN log :
              /\ IsEnter(i) /\ log[i].expr.kind = "Logical" /\ log[i].expr.op = op
              /\ log[i].expr.rhs.kind = "Grouping"
              /\ log[LeaveOf(i + 1) + 1].ev = "leave"
        /\ \E i \in DOMAIN log :
              /\ IsEnter(i) /\ log[i].expr.kind = "Logical" /\ log[i].expr.op = op
              /\ log[LeaveOf(i + 1) + 1].ev = "enter"

\* C9: in a Binary expression the left operand is evaluated to its end before
\* the right operand starts; when the left operand fails the right one is not
\* evaluated; the operand types are checked only after both were evaluated.
C9_BinaryOrder ==
    \A i \in DOMAIN log :
        IsEnter(i) /\ log[i].expr.kind = "Binary" =>
            LET e == log[i].expr
                d == log[i].depth
                j == LeaveOf(i + 1)
            IN  /\ EntersAt(i + 1, e.lhs, d)
                /\ IF log[j].r.kind # "Ok" THEN LeavesAt(j + 1, i, log[j].r)
                   ELSE /\ EntersAt(j + 1, e.rhs, d)
                        /\ LET k == LeaveOf(j + 1) IN
                           /\ LeaveOf(i) = k + 1
                           /\ log[k].r.kind # "Ok" => log[k + 1].r = log[k].r
                           /\ log[k].r.kind = "Ok" =>
                                 log[k + 1].r = BinaryOp(e.op, log[j].r.val, log[k].r.val)

\* A call in which both operands of a Binary assigned to the same variable,
\* and the operand types were rejected after both assignments.
C9_Witness ==
    \E i \in DOMAIN log :
        /\ IsEnter(i) /\ log[i].expr.kind = "Binary"
        /\ log[i].expr.lhs.kind = "Grouping" /\ log[i].expr.rhs.kind = "Grouping"
        /\ log[LeaveOf(i)].r.kind = "General"
        /\ log[LeaveOf(i) - 1].r.kind = "Ok"
        /\ Len(SelectSeq(SubSeq(log, i, LeaveOf(i)), LAMBDA x : x.ev = "assign")) = 2

\* C10: in Call(callee, args) the callee is evaluated first, then every
\* argument from left to right, and only then is the number of arguments
\* compared with the arity: once the callee is known to be callable, the
\* evaluation of the first argument follows.
C10_CallOrder ==
    \A i \in DOMAIN log :
        IsEnter(i) /\ log[i].expr.kind = "Call" =>
            LET e == log[i].expr
                d == log[i].depth
                j == LeaveOf(i + 1)
            IN  /\ EntersAt(i + 1, e.callee, d)
                /\ (log[j].r.kind = "Ok" /\ log[j].r.val.t = "Callable" /\ e.arguments # <<>>)
                      => EntersAt(j + 1, e.arguments[1], d)

\* C11: the global bindings a call of Runner::run leaves behind are the ones
\* the next call on the same Runner starts from, with the same values, and
\* a call that fails keeps what its statements wrote before the error: the
\* last write to a global name in a call is its value after the call.
GlobalWrite(i, name) ==
    \/ /\ log[i].ev \in {"define", "function"}
       /\ log[i].env = interpreter.globals /\ log[i].name = name
    \/ /\ log[i].ev = "assign" /\ log[i].err = <<>> /\ log[i].name = name
       /\ Binders(log[i].before, log[i].env, name)[1] = interpreter.globals

Written(i) == IF log[i].ev = "function" THEN LitCallable(log[i].fun) ELSE log[i].val

GlobalNames == {log[i].name : i \in {j \in DOMAIN log : log[j].ev \in {"define", "function", "assign"}}}

GlobalsOf(interp) == interp.envs[interp.globals].values

C11_NoRollback ==
    \A name \in GlobalNames : \A i \in DOMAIN log :
        (GlobalWrite(i, name) /\ \A j \in (i + 1)..Len(log) : ~GlobalWrite(j, name))
            => /\ name \in DOMAIN GlobalsOf(interpreter)
               /\ GlobalsOf(interpreter)[name] = Written(i)

C11_SessionPersistence ==
    /\ []C11_NoRollback
    /\ [][/\ interpreter'.globals = interpreter.globals
          /\ log'[1].ev = "run"
          /\ GlobalsOf(log'[1]) = GlobalsOf(interpreter)]_vars

\* A second call that starts with the string a failed first call assigned
\* to the global a, and reads it.
C11_Witness ==
    /\ runs = 2
    /\ log[1].ev = "run"
    /\ GlobalsOf(log[1])[Chars("clock")] = LitCallable(Clock)
    /\ Chars("a") \in DOMAIN GlobalsOf(log[1])
    /\ GlobalsOf(log[1])[Chars("a")] = LitString(Chars("s"))
    /\ out = <<LitString(Chars("s"))>>

\* C12: a Return signal that reaches a top-level statement (a `return`
\* outside any function call) is a runtime error: the call of run returns an
\* error and nothing of a later top-level statement happens.
C12_TopLevelReturn ==
    \A i \in DOMAIN log :
        log[i].ev = "stmt_end" /\ log[i].how = "Return"
            => i = Len(log) /\ rresult = "Err"

\* C13: Unary(!, e) yields Bool(not truthy(v)), v being the value of e.
C13_LogicalNot ==
    \A i \in DOMAIN log :
        IsEnter(i) /\ log[i].expr.kind = "Unary" /\ log[i].expr.op = "LogNeg" =>
            LET j == LeaveOf(i + 1) IN
            log[j].r.kind = "Ok" =>
                LeavesAt(j + 1, i, ROk(LitBool(~is_truthy(log[j].r.val))))

\* C14: equality on callables is by identity: `==` on a callable and itself
\* yields true, and on two distinct callables yields false.
C14_CallableIdentity ==
    \A i \in DOMAIN log :
        IsEnter(i) /\ log[i].expr.kind = "Binary" /\ log[i].expr.op = "EqEq" =>
            LET j == LeaveOf(i + 1)
                k == LeaveOf(j + 1)
            IN  (/\ log[j].r.kind = "Ok" /\ log[j].r.val.t = "Callable"
                 /\ log[k].r.kind = "Ok" /\ log[k].r.val.t = "Callable")
                    => LeavesAt(k + 1, i, ROk(LitBool(log[j].r.val = log[k].r.val)))

\* C15: the source text `a != b`, a and b being literals of nil, booleans,
\* numbers and strings, goes through lexer, parser and evaluator: it is
\* parsed into Binary(!=, a, b) and evaluates to the negation of a == b.
NeOperands == {Chars("nil"), Chars("true"), Chars("1"), Chars("2"), Chars("\"a\"")}

NeText(a, b) == Chars("print ") \o a \o Chars(" != ") \o b \o Chars(";")

LiteralOf(t) == primary(tokenize(t).tokens).v[1]

C15_NotEqual ==
    \A a, b \in NeOperands :
        code = NeText(a, b) =>
            /\ rresult = "Ok"
            /\ rstmts = <<StmtPrint(ExprBinary("Ne", LiteralOf(a), LiteralOf(b)))>>
            /\ out = <<LitBool(~is_equal(LiteralOf(a).lit, LiteralOf(b).lit))>>

\* C16: `for (init; cond; incr) body` is parsed into the desugared tree and
\* nothing else: the body is Block([body, Expression(incr)]) iff incr is
\* present, the loop is While(cond, body) with Literal(true) for an absent
\* cond, and it is wrapped in Block([init, while]) iff init is present; with
\* the three clauses present it is the tree of
\* `{ init; while (cond) { body incr; } }`.
ExpressionOf(text) == expression(tokenize(text).tokens).v[1]

Desugared(init, cond, incr, body) ==
    LET body0 == ParseOf(body).statements[1]
        body1 == IF incr # <<>> THEN StmtBlock(<<body0, StmtExpression(ExpressionOf(incr))>>)
                 ELSE body0
        while == StmtWhile(IF cond # <<>> THEN ExpressionOf(cond)
                           ELSE ExprLiteral(LitBool(TRUE)), body1)
    IN  IF init # Chars(";") THEN StmtBlock(<<ParseOf(init).statements[1], while>>)
        ELSE while

WhileText(init, cond, incr, body) ==
    Chars("{") \o init \o Chars(" while (") \o cond \o Chars(") {") \o body \o incr
        \o Chars("; } }")

C16_ForDesugaring ==
    pstate # "parsing" =>
        \A init \in ForInits, cond \in ForConds, incr \in ForIncrs, body \in ForBodies :
            source = ForText(init, cond, incr, body) =>
                /\ pstate = "done"
                /\ perrors = <<>>
                /\ pstatements = <<Desugared(init, cond, incr, body)>>
                /\ (init # Chars(";") /\ cond # <<>> /\ incr # <<>>)
                      => pstatements = ParseOf(WhileText(init, cond, incr, body)).statements

\* The parse of a for statement with its three clauses has ended.
C16_Witness ==
    /\ pstate = "done"
    /\ source = ForText(Chars("var i = 0;"), Chars(" i < 2"), Chars(" i = i + 1"),
                        Chars(" print i;"))
    /\ Len(pstatements) = 1
    /\ pstatements[1].kind = "Block"
    /\ pstatements[1].stmts[2].kind = "While"
    /\ pstatements[1].stmts[2].body.kind = "Block"

\* C17: the parser builds the tree of the grammar levels assignment < or <
\* and < equality < comparison < term < factor < unary < call for every
\* well-formed expression: of two binary operators the one of the higher
\* level binds tighter, operators of the same level nest to the left, unary
\* operators and calls bind tighter than every binary operator, and
\* assignment nests to the right.
Node(o, l, r) ==
    IF o.kind = "Logical" THEN ExprLogical(o.op, l, r) ELSE ExprBinary(o.op, l, r)

Var(x) == ExpressionOf(<<" ">> \o x)

LevelTree(o1, o2) ==
    IF o1.level >= o2.level
    THEN Node(o2, Node(o1, Var(Chars("a")), Var(Chars("b"))), Var(Chars("c")))
    ELSE Node(o1, Var(Chars("a")), Node(o2, Var(Chars("b")), Var(Chars("c"))))

ParsedAs(text, tree) ==
    source = text => pstate = "done" /\ perrors = <<>> /\ pstatements = <<StmtExpression(tree)>>

C17_Precedence ==
    pstate # "parsing" =>
        /\ \A o1, o2 \in Operators : ParsedAs(ExprText(o1, o2), LevelTree(o1, o2))
        /\ ParsedAs(Chars(" a = b = c;"),
                    ExprAssign(Var(Chars("a")).name,
                               ExprAssign(Var(Chars("b")).name, Var(Chars("c")))))
        /\ ParsedAs(Chars(" a = b or c;"),
                    ExprAssign(Var(Chars("a")).name,
                               ExprLogical("Or", Var(Chars("b")), Var(Chars("c")))))
        /\ ParsedAs(Chars(" - ! a * b;"),
                    ExprBinary("Multiply",
                               ExprUnary("BinNeg", ExprUnary("LogNeg", Var(Chars("a")))),
                               Var(Chars("b"))))
        /\ ParsedAs(Chars(" ! a == - b;"),
                    ExprBinary("EqEq", ExprUnary("LogNeg", Var(Chars("a"))),
                               ExprUnary("BinNeg", Var(Chars("b")))))
        /\ ParsedAs(Chars(" - a (b) (c);"),
                    ExprUnary("BinNeg",
                              ExprCall(ExprCall(Var(Chars("a")), <<ExpressionOf(Chars("b"))>>),
                                       <<ExpressionOf(Chars("c"))>>)))

\* C17 for the expressions without `!=`.
C17_PrecedenceButNe ==
    pstate # "parsing" =>
        \A o1, o2 \in Operators :
            (o1.op # "Ne" /\ o2.op # "Ne") => ParsedAs(ExprText(o1, o2), LevelTree(o1, o2))

\* C18: a call of a user function whose body completes without `return`
\* yields Nil, one whose body raises Return(v) yields v and Nil for a bare
\* `return;`, and a runtime error raised in the body is the result of the
\* call, unchanged.
IsBody(i) ==
    /\ log[i].ev = "block"
    /\ \E j \in 1..(i - 1) : log[j].ev = "call" /\ log[j].env = log[i].env

CallResult(body) ==
    CASE body.kind = "Ok" -> ROk(LitNil)
      [] body.kind = "Return" /\ body.ret = <<>> -> ROk(LitNil)
      [] body.kind = "Return" /\ body.ret # <<>> -> ROk(body.ret[1])
      [] OTHER -> body

C18_CallResult ==
    \A i \in DOMAIN log :
        IsBody(i) =>
            /\ i + 1 \in DOMAIN log
            /\ log[i + 1].ev = "leave"
            /\ log[i + 1].expr.kind = "Call"
            /\ log[i + 1].r = CallResult(log[i].r)

C18_Witness ==
    /\ \E i \in DOMAIN log : IsBody(i) /\ log[i].r.kind = "Ok"
    /\ \E i \in DOMAIN log : IsBody(i) /\ log[i].r = RReturn(<<>>)
    /\ \E i \in DOMAIN log : IsBody(i) /\ log[i].r = RReturn(<<LitNumber([m |-> 2, e |-> 0, nf |-> ""])>>)
    /\ \E i \in DOMAIN log : IsBody(i) /\ log[i].r.kind = "General"
    /\ rresult = "Err"

\* C19: a `return` executed inside a call of a user function, under any
\* nesting of blocks, if-branches and while loops, stops all of them: from the
\* return to the end of the innermost open call nothing happens but blocks
\* being left with that Return, the last of them the body of that call, whose
\* Call expression then has the returned value as its result, so that the
\* calls further out go on.
OpenCalls(i) ==
    { j \in 1..(i - 1) :
        /\ log[j].ev = "call"
        /\ \A k \in (j + 1)..(i - 1) : ~(log[k].ev = "block" /\ log[k].env = log[j].env) }

Innermost(i) == CHOOSE j \in OpenCalls(i) : \A k \in OpenCalls(i) : k <= j

\* The index at which the body of the call opened at j is left, 0 if it is not.
BodyEnd(j) ==
    IF \E k \in (j + 1)..Len(log) : log[k].ev = "block" /\ log[k].env = log[j].env
    THEN CHOOSE k \in (j + 1)..Len(log) : log[k].ev = "block" /\ log[k].env = log[j].env
    ELSE 0

Unwinds(i) ==
    LET e == BodyEnd(Innermost(i)) IN
    /\ e > i
    /\ \A k \in (i + 1)..e : log[k].ev = "block" /\ log[k].r = log[i].r
    /\ \A k \in (i + 1)..(e - 1) : ~IsBody(k)
    /\ e + 1 \in DOMAIN log
    /\ log[e + 1].ev = "leave"
    /\ log[e + 1].expr.kind = "Call"
    /\ log[e + 1].r = CallResult(log[i].r)

C19_ReturnUnwinding ==
    \A i \in DOMAIN log :
        (log[i].ev = "return" /\ OpenCalls(i) # {}) => Unwinds(i)

\* A return under an if-branch in the block of a while loop inside a call that
\* is itself inside a call: the loop, the block and the body stop, the outer
\* call prints the value and returns its own.
C19_Witness ==
    /\ \E i \in DOMAIN log :
          /\ log[i].ev = "return"
          /\ Cardinality(OpenCalls(i)) = 2
          /\ BodyEnd(Innermost(i)) = i + 2
    /\ out = <<LitNumber([m |-> 1, e |-> 0, nf |-> ""]), LitNumber([m |-> 5, e |-> 0, nf |-> ""])>>
    /\ rresult = "Ok"

\* C20: when `=` follows an expression that is not a variable, the parser
\* reports "Invalid assignment target" without consuming any further token:
\* when the error is raised the token stream stands at the `=` (or just behind
\* it) and the right-hand side has not been parsed, so the message is the
\* first error of the parse whatever follows the `=`.
FirstEq(toks) ==
    CHOOSE i \in DOMAIN toks :
        /\ toks[i].value.kind = "Eq"
        /\ \A j \in 1..(i - 1) : toks[j].value.kind # "Eq"

AtTarget == source \in TargetTexts /\ pstate = "parsing" /\ stream = tokenize(source).tokens

C20_InvalidTarget ==
    /\ AtTarget =>
          LET r == assignment(stream)
              i == FirstEq(stream)
          IN  /\ r.st = "err"
              /\ r.msg = "Invalid assignment target"
              /\ r.toks \in {SubSeq(stream, i, Len(stream)), SubSeq(stream, i + 1, Len(stream))}
    /\ (source \in TargetTexts /\ pstate = "done") =>
          perrors # <<>> /\ perrors[1] = "Invalid assignment target"

\* C21: the state of a captured environment is shared and persistent: every
\* read of a variable yields the value most recently written to the scope
\* that binds it, by whichever call or function value wrote it (or the value
\* the scope had when the run began), and the environment of every call is a
\* fresh one that no earlier call, block or scope of the session used, so
\* closures made by separate calls of the defining function have separate
\* variables.
\* <<v>> when the event at j writes v to name in the scope f, <<>> otherwise.
WriteOf(j, f, name) ==
    CASE log[j].ev = "define" /\ log[j].env = f /\ log[j].name = name -> <<log[j].val>>
      [] log[j].ev = "function" /\ log[j].env = f /\ log[j].name = name ->
            <<LitCallable(log[j].fun)>>
      [] log[j].ev = "assign" /\ log[j].name = name /\ log[j].err = <<>>
            /\ Binders(log[j].before, log[j].env, name)[1] = f -> <<log[j].val>>
      [] log[j].ev = "call" /\ log[j].env = f
            /\ (\E p \in DOMAIN log[j].fun.params : log[j].fun.params[p].lexeme = name) ->
            LET p == CHOOSE p \in DOMAIN log[j].fun.params :
                        /\ log[j].fun.params[p].lexeme = name
                        /\ \A q \in DOMAIN log[j].fun.params :
                              log[j].fun.params[q].lexeme = name => q <= p
            IN  <<log[j].args[p]>>
      [] OTHER -> <<>>

\* The value name has in the scope f just before the event at k.
LastWritten(k, f, name) ==
    LET W == {j \in 1..(k - 1) : WriteOf(j, f, name) # <<>>} IN
    IF W # {} THEN WriteOf(CHOOSE j \in W : \A i \in W : i <= j, f, name)
    ELSE IF f \in DOMAIN log[1].envs /\ name \in DOMAIN log[1].envs[f].values
         THEN <<log[1].envs[f].values[name]>>
         ELSE <<>>

FreshCall(i) ==
    /\ log[i].env \notin DOMAIN log[1].envs
    /\ \A j \in 1..(i - 1) :
          /\ log[j].ev \in {"call", "block", "define", "function", "get", "assign"}
                => log[j].env # log[i].env
          /\ log[j].ev = "get" => log[i].env \notin DOMAIN log[j].envs

C21_SharedClosure ==
    /\ \A k \in DOMAIN log :
          (log[k].ev = "get" /\ log[k].err = <<>>) =>
              log[k].val = LastWritten(k, Binders(log[k].envs, log[k].env, log[k].name)[1],
                                       log[k].name)
    /\ \A i \in DOMAIN log : log[i].ev = "call" => FreshCall(i)

\* Two counters from two calls of mk: the first counts 1, 2, 3 through inc
\* and get, which share its variable, and the second starts again at 1.
C21_Witness ==
    /\ out = <<LitNumber([m |-> 1, e |-> 0, nf |-> ""]), LitNumber([m |-> 2, e |-> 0, nf |-> ""]),
               LitNumber([m |-> 3, e |-> 0, nf |-> ""]), LitNumber([m |-> 1, e |-> 0, nf |-> ""])>>
    /\ \E i, j \in DOMAIN log :
          /\ log[i].ev = "assign" /\ log[j].ev = "assign"
          /\ log[i].name = Chars("i") /\ log[j].name = Chars("i")
          /\ Binders(log[i].before, log[i].env, Chars("i"))[1]
                # Binders(log[j].before, log[j].env, Chars("i"))[1]
    /\ \E i, j \in DOMAIN log :
          /\ log[i].ev = "call" /\ log[j].ev = "call"
          /\ log[i].fun.closure = log[j].fun.closure
          /\ log[i].fun.name # log[j].fun.name

\* C22: lexing the lexeme of a token again gives that token's kind: for every
\* token the iterator yields whose lexeme holds no whitespace, tokenize on the
\* lexeme alone yields exactly one token and it has the same kind, the Eof
\* token of an unterminated string with its empty lexeme included.
NoWhitespace(lexeme) == \A i \in DOMAIN lexeme : ~is_whitespace(lexeme[i])

RoundTrip(t) ==
    LET r == tokenize(t.lexeme) IN
    /\ ~r.panic
    /\ Len(r.tokens) = 1
    /\ r.tokens[1].value = t.value

C22_RoundTrip ==
    \A i \in DOMAIN tokens : NoWhitespace(tokens[i].lexeme) => RoundTrip(tokens[i])

\* C22 for the tokens with a lexeme that is not empty.
C22_RoundTripNonEmpty ==
    \A i \in DOMAIN tokens :
        (NoWhitespace(tokens[i].lexeme) /\ tokens[i].lexeme # <<>>) => RoundTrip(tokens[i])

\* C23: a lookup returns the value bound in the innermost scope of the chain
\* from the current scope that binds the name at the time of the lookup; it
\* fails with "Undefined variable '<name>'." only when no scope of the chain,
\* the global scope included, binds it; and it changes no scope.
C23_Lookup ==
    \A i \in DOMAIN log :
        log[i].ev = "get" =>
            LET b == Binders(log[i].envs, log[i].env, log[i].name) IN
            /\ IF b # <<>>
               THEN /\ log[i].err = <<>>
                    /\ log[i].val = <<log[i].envs[b[1]].values[log[i].name]>>
               ELSE /\ log[i].val = <<>>
                    /\ log[i].err = <<UndefinedVariable(log[i].name)>>
            /\ log[i].after = log[i].envs
            /\ log[i + 1].ev = "leave"
            /\ log[i + 1].r = IF b # <<>> THEN ROk(log[i].val[1]) ELSE RGeneral(log[i].err[1])

\* The scenario of a shadowed variable: the lookup in the block finds two
\* scopes that bind `a` and yields the inner value, the lookup after the
\* block yields the outer one.
C23_Witness ==
    /\ \E i \in DOMAIN log :
          /\ log[i].ev = "get"
          /\ Len(Binders(log[i].envs, log[i].env, log[i].name)) = 2
          /\ log[i].val = <<LitNumber([m |-> 2, e |-> 0, nf |-> ""])>>
    /\ \E i \in DOMAIN log :
          /\ log[i].ev = "get"
          /\ Len(Chain(log[i].envs, log[i].env)) = 1
          /\ log[i].val = <<LitNumber([m |-> 1, e |-> 0, nf |-> ""])>>
    /\ out = <<LitNumber([m |-> 2, e |-> 0, nf |-> ""]), LitNumber([m |-> 1, e |-> 0, nf |-> ""])>>

\* A lookup of a name that no scope of the chain binds.
C23_UndefinedReached ==
    \E i \in DOMAIN log :
        /\ log[i].ev = "get"
        /\ log[i].err # <<>>

\* C24: two-character operators use maximal munch: when the lexer reads `!`,
\* `=`, `<` or `>` and the next character is `=`, the token is the
\* two-character one (`!=`, `==`, `<=`, `>=`) and both characters are
\* consumed; otherwise it is the one-character token and exactly one
\* character is consumed.
RECURSIVE SkipWhitespace(_)
SkipWhitespace(chars) ==
    IF chars # <<>> /\ is_whitespace(chars[1]) THEN SkipWhitespace(Tail(chars)) ELSE chars

OneCharKind == [c \in {"!", "=", "<", ">"} |->
                   CASE c = "!" -> "Bang" [] c = "=" -> "Eq" [] c = "<" -> "Lt" [] c = ">" -> "Gt"]

TwoCharKind == [c \in {"!", "=", "<", ">"} |->
                   CASE c = "!" -> "Ne" [] c = "=" -> "EqEq" [] c = "<" -> "Le" [] c = ">" -> "Ge"]

AtOperator(chars) ==
    SkipWhitespace(chars) # <<>> /\ SkipWhitespace(chars)[1] \in DOMAIN OneCharKind

Munch ==
    LET cs == SkipWhitespace(cursor.chars)
        t  == tokens'[Len(tokens')]
    IN  IF Len(cs) >= 2 /\ cs[2] = "="
        THEN /\ t.value = Kind(TwoCharKind[cs[1]])
             /\ t.lexeme = <<cs[1], "=">>
             /\ cursor'.chars = SubSeq(cs, 3, Len(cs))
        ELSE /\ t.value = Kind(OneCharKind[cs[1]])
             /\ t.lexeme = <<cs[1]>>
             /\ cursor'.chars = Tail(cs)

C24_MaximalMunch ==
    [][(ended = "no" /\ AtOperator(cursor.chars)) =>
           (Len(tokens') = Len(tokens) + 1 /\ ended' = "no" /\ Munch)]_vars

\* `!==` has been lexed as `!=` followed by `=`.
C24_Witness ==
    /\ input = <<"!", "=", "=">>
    /\ Len(tokens) = 2
    /\ tokens[1].value = Kind("Ne")
    /\ tokens[2].value = Kind("Eq")
    /\ cursor.chars = <<>>

\* `< =` has been lexed as `<` followed by `=`, and `>=` as one token.
C24_SplitReached ==
    \/ /\ input = <<"<", " ", "=">>
       /\ Len(tokens) = 2
       /\ tokens[1].value = Kind("Lt")
    \/ /\ input = <<">", "=">>
       /\ tokens = <<Token(Kind("Ge"), 2, <<">", "=">>)>>

\* C25: every Call node and every Function node of the parser's output has
\* at most 255 arguments or parameters: a call or a declaration with exactly
\* 255 is accepted, and one with 256 or more is rejected with "Can't have
\* more than 255 arguments" or "Can't have more than 255 parameters." and
\* produces no statement.
RECURSIVE ExprWithin(_), StmtWithin(_)
ExprWithin(e) ==
    CASE e.kind \in {"Grouping", "Unary", "Assign"} -> ExprWithin(e.expr)
      [] e.kind \in {"Binary", "Logical"} -> ExprWithin(e.lhs) /\ ExprWithin(e.rhs)
      [] e.kind = "Call" ->
            /\ Len(e.arguments) <= 255
            /\ ExprWithin(e.callee)
            /\ \A i \in DOMAIN e.arguments : ExprWithin(e.arguments[i])
      [] OTHER -> TRUE

StmtWithin(st) ==
    CASE st.kind \in {"Expression", "Print"} -> ExprWithin(st.expr)
      [] st.kind = "Var" -> \A i \in DOMAIN st.initializer : ExprWithin(st.initializer[i])
      [] st.kind = "Block" -> \A i \in DOMAIN st.stmts : StmtWithin(st.stmts[i])
      [] st.kind = "If" ->
            /\ ExprWithin(st.condition)
            /\ StmtWithin(st.then_stmt)
            /\ \A i \in DOMAIN st.else_stmt : StmtWithin(st.else_stmt[i])
      [] st.kind = "While" -> ExprWithin(st.condition) /\ StmtWithin(st.body)
      [] st.kind = "Function" ->
            /\ Len(st.params) <= 255
            /\ \A i \in DOMAIN st.body : StmtWithin(st.body[i])
      [] st.kind = "Return" -> \A i \in DOMAIN st.value : ExprWithin(st.value[i])
      [] OTHER -> TRUE

Accepted(kind, n) ==
    /\ pstate = "done"
    /\ perrors = <<>>
    /\ Len(pstatements) = 1
    /\ pstatements[1].kind = kind
    /\ IF kind = "Function" THEN Len(pstatements[1].params) = n
       ELSE pstatements[1].expr.kind = "Call" /\ Len(pstatements[1].expr.arguments) = n

Rejected(msg) ==
    /\ pstate = "done"
    /\ perrors = <<msg>>
    /\ pstatements = <<>>

C25_ArityLimit ==
    /\ \A i \in DOMAIN pstatements : StmtWithin(pstatements[i])
    /\ pstate # "parsing" =>
          \A n \in {1, 255, 256, 257} :
              /\ source = CallText(n) =>
                    IF n <= 255 THEN Accepted("Expression", n)
                    ELSE Rejected("Can't have more than 255 arguments")
              /\ source = FunText(n) =>
                    IF n <= 255 THEN Accepted("Function", n)
                    ELSE Rejected("Can't have more than 255 parameters.")

\* A call with exactly 255 arguments has been parsed into one Call node.
C25_Witness ==
    /\ source = CallText(255)
    /\ pstate = "done"
    /\ Len(pstatements) = 1
    /\ Len(pstatements[1].expr.arguments) = 255

\* A declaration with 256 parameters has been rejected.
C25_RejectedReached ==
    /\ source = FunText(256)
    /\ pstate = "done"
    /\ perrors = <<"Can't have more than 255 parameters.">>

(***************************************************************************)
(* The current-environment pointer at the boundaries of Runner::run.       *)
(***************************************************************************)
\* The call of Runner::run began with the pointer on the global environment.
StartsAtGlobal ==
    /\ log[1].ev = "run"
    /\ log[1].environment = log[1].globals
    /\ log[1].globals = InterpreterNew.globals
    /\ log[1].envs[log[1].globals].enclosing = <<>>

\* The call of Runner::run returned with the pointer on the global environment.
EndsAtGlobal ==
    /\ interpreter.environment = interpreter.globals
    /\ interpreter.globals = InterpreterNew.globals
    /\ interpreter.envs[interpreter.globals].enclosing = <<>>

\* The blocks i, j, k of the history were left by a runtime error, i inside j
\* inside k, and k was entered from the global environment.
NestedError(i, j, k) ==
    /\ i < j /\ j < k
    /\ \A n \in {i, j, k} : log[n].ev = "block" /\ log[n].how = "General"
    /\ log[i].before = log[j].env
    /\ log[j].before = log[k].env
    /\ log[k].before = log[1].globals

\* C26: every call of Runner::run starts with the current-environment pointer
\* on the global environment, and every call that returns (with Ok or with a
\* runtime error, a Return that reached top level included) leaves it there;
\* `globals` is the environment Interpreter::new made, and that environment
\* has no enclosing scope.
C26_GlobalAtBoundaries ==
    runs > 0 =>
        /\ StartsAtGlobal
        /\ rresult # "Panic" => EndsAtGlobal

\* A call of Runner::run that returned a runtime error raised inside a block
\* of a function body called from inside a block, the pointer back on the
\* global environment.
C26_Witness ==
    /\ runs > 0
    /\ rresult = "Err"
    /\ \E i, j, k \in DOMAIN log : NestedError(i, j, k)
    /\ \E c \in DOMAIN log : log[c].ev = "call"
    /\ EndsAtGlobal

\* A second call of Runner::run on the same Runner, in which a Return reached
\* top level, and that ended where it started.
C26_ReturnReached ==
    /\ runs = 2
    /\ rresult = "Ok"
    /\ \E i \in DOMAIN log : log[i].ev = "stmt_end" /\ log[i].how = "Return"
    /\ StartsAtGlobal
    /\ EndsAtGlobal

(***************************************************************************)
(* The place of Eof among the tokens of an input.                          *)
(***************************************************************************)
\* The tokens yielded so far, the i-th of kind Eof.
EofAt(i) == i \in DOMAIN tokens /\ tokens[i].value.kind = "Eof"

\* C27: a token of kind Eof is the last token of the sequence: the iterator
\* yields no token after it, so that the parser, which stops at the first Eof,
\* leaves no token and no source text behind it.
C27_EofLast ==
    \A i \in DOMAIN tokens :
        EofAt(i) => i = Len(tokens) /\ cursor.chars = <<>>

\* The same for the inputs without the character U+0000: the Eof made at the
\* end of the input (after trailing whitespace, or in an unterminated string)
\* is the last token.
C27_EofLastButNul ==
    (\A n \in DOMAIN input : input[n] # NUL) => C27_EofLast

\* The iterator has ended on an input without U+0000 and its last token is Eof.
C27_EofReached ==
    /\ ended = "yes"
    /\ \A n \in DOMAIN input : input[n] # NUL
    /\ Len(tokens) >= 2
    /\ EofAt(Len(tokens))

(***************************************************************************)
(* The arguments LoxFunction::call is reached with.                        *)
(***************************************************************************)
\* The history's i-th entry is an invocation of LoxFunction::call.
IsCall(i) == i \in DOMAIN log /\ log[i].ev = "call"

\* The parameter at position p of the invocation i is the last of its name.
LastOfName(i, p) ==
    \A q \in DOMAIN log[i].fun.params :
        q > p => log[i].fun.params[q].lexeme # log[i].fun.params[p].lexeme

\* The fresh environment of the invocation i holds exactly the parameters,
\* each with the argument at its own position.
BoundByPosition(i) ==
    /\ DOMAIN log[i].bound = {log[i].fun.params[p].lexeme : p \in DOMAIN log[i].fun.params}
    /\ \A p \in DOMAIN log[i].fun.params :
          LastOfName(i, p) => log[i].bound[log[i].fun.params[p].lexeme] = log[i].args[p]

\* C28: LoxFunction::call is reached only with as many arguments as the
\* function has parameters: no call of Runner::run panics on args[i], and
\* every invocation binds each parameter to the argument at its position.
C28_ArityBeforeCall ==
    /\ rresult = "Panic" => stderr # <<Msg("index out of bounds")>>
    /\ \A i \in DOMAIN log :
          IsCall(i) =>
              /\ Len(log[i].args) = Len(log[i].fun.params)
              /\ BoundByPosition(i)

\* A function of two parameters was invoked with two different arguments, and
\* a later call of it with one argument was rejected before any invocation.
C28_Witness ==
    /\ rresult = "Err"
    /\ \E m \in DOMAIN stderr : stderr[m].text = "Expected {} arguments but got {}."
    /\ Len(SelectSeq(log, LAMBDA x : x.ev = "call")) = 1
    /\ \E i \in DOMAIN log :
          /\ IsCall(i)
          /\ Len(log[i].fun.params) = 2
          /\ log[i].args[1] # log[i].args[2]
          /\ BoundByPosition(i)

====
